---- MODULE Spec2Model ----
(***************************************************************************)
(* Last-Light: a state-machine model of the simulation core.               *)
(*                                                                         *)
(* One variable per object of the program, each a record whose fields are  *)
(* the object's fields:                                                    *)
(*   mz      MazeGenerator (systems/MazeGenerator) plus the position of    *)
(*           generate() in its own code                                    *)
(*   fog     FogOfWar                                                      *)
(*   player  Game.playerX / Game.playerY as handed to the fog engine       *)
(*   cm      CreatureManager                                               *)
(*   combat  CombatSystem                                                  *)
(*   game    Game (level orchestration)                                    *)
(*   loop    GameLoop (core/GameLoop)                                      *)
(*   hist    history of the run, kept for stating properties only          *)
(*                                                                         *)
(* Each component has its own specification (SpecMaze, SpecFog, ...): the  *)
(* variables of the other components keep their initial value there.       *)
(*                                                                         *)
(* Numbers.  World coordinates are kept in thirds of a world unit          *)
(* (PosScale) so that one fixed step of a flare, 800/60 units, is exact.   *)
(* Time is kept in thirds of a millisecond (MsScale) so that the fixed     *)
(* step, 1000/60 ms, is exact.  The torch multiplier is kept in tenths.    *)
(***************************************************************************)
EXTENDS Integers, Sequences, FiniteSets, TLC

VARIABLES mz, fog, player, cm, combat, game, loop, hist, grid

vars == <<mz, fog, player, cm, combat, game, loop, hist, grid>>

Min(a, b) == IF a < b THEN a ELSE b
Max(a, b) == IF a > b THEN a ELSE b
Sq(a) == a * a
\* F applied to the value of v, v being computed once
With(v, F(_)) == CHOOSE r \in {F(x) : x \in {v}} : TRUE

(***************************************************************************)
(* config/constants.ts                                                     *)
(***************************************************************************)
TILE_SIZE == 40
STARTING_MAP_SIZE == 25
MAP_SIZE_INCREMENT == 5
MAX_MAP_SIZE == 60

(***************************************************************************)
(* MazeGenerator                                                           *)
(***************************************************************************)
FLOOR == 0
WALL == 1

\* Bounds of the maze model.
\* MaxAttempts caps the room-placement loop: the attempts beyond it are the
\* draws that repeat an already placed room and are rejected as overlapping.
MaxAttempts == 3

\* The map sizes generate() is run on (Game.getMapSize yields 25, 30, .. 60).
MapSizes == {STARTING_MAP_SIZE}

\* randomInt(min, max) is floor(Math.random() * (max - min + 1)) + min; the
\* model draws Math.random() at 0 and just below 1: the two ends of the range.
randomInt(lo, hi) == {lo, hi}

mapScale(m) == Min(m.width, m.height)
\* Math.max(10, Math.floor(mapScale * 1.5)), capped by MaxAttempts
roomAttempts(m) == Min(MaxAttempts, Max(10, (mapScale(m) * 15) \div 10))
\* Math.max(3, Math.floor(mapScale * 0.15))
minRoomSize(m) == Max(3, (mapScale(m) * 15) \div 100)
\* Math.max(5, Math.floor(mapScale * 0.35))
maxRoomSize(m) == Max(5, (mapScale(m) * 35) \div 100)

\* tiles[y][x] is kept as the set of the floor tiles, each the row-major
\* index y * width + x; every other tile of the grid is a wall.
TileIdx(m, x, y) == y * m.width + x
TileAt(m, x, y) == IF TileIdx(m, x, y) \in m.tiles THEN FLOOR ELSE WALL

NewRoom(x, y, w, h) ==
    [x |-> x, y |-> y, width |-> w, height |-> h,
     centerX |-> x + w \div 2, centerY |-> y + h \div 2]

roomsOverlap(a, b, padding) ==
    ~ (\/ a.x + a.width + padding < b.x
       \/ b.x + b.width + padding < a.x
       \/ a.y + a.height + padding < b.y
       \/ b.y + b.height + padding < a.y)

\* carveRoom: every tile of the rectangle becomes floor
carveRoom(m, room) ==
    m.tiles \cup {TileIdx(m, x, y) : x \in room.x .. room.x + room.width - 1,
                                     y \in room.y .. room.y + room.height - 1}

\* carveHorizontalCorridor(x1, x2, y): 3 rows from y, columns min..max
carveHorizontalCorridor(m, x1, x2, y) ==
    [m EXCEPT !.tiles = @ \cup
        {TileIdx(m, x, y + dy) : x \in Min(x1, x2) .. Max(x1, x2),
                                 dy \in {d \in 0 .. 2 : y + d >= 0 /\ y + d < m.height}}]

\* carveVerticalCorridor(y1, y2, x): 3 columns from x, rows min..max
carveVerticalCorridor(m, y1, y2, x) ==
    [m EXCEPT !.tiles = @ \cup
        {TileIdx(m, x + dx, y) : y \in Min(y1, y2) .. Max(y1, y2),
                                 dx \in {d \in 0 .. 2 : x + d >= 0 /\ x + d < m.width}}]

\* A corridor whose second leg starts again from room A's centre instead of
\* ending at room B's: the two legs no longer form an L that reaches room B.
carveCorridorDetached(m, roomA, roomB, hFirst) ==
    IF hFirst
    THEN carveVerticalCorridor(
             carveHorizontalCorridor(m, roomA.centerX, roomB.centerX, roomA.centerY),
             roomA.centerY, roomB.centerY, roomA.centerX)
    ELSE carveHorizontalCorridor(
             carveVerticalCorridor(m, roomA.centerY, roomB.centerY, roomA.centerX),
             roomA.centerX, roomB.centerX, roomA.centerY)

\* The L-shaped corridor between two rooms; hFirst is Math.random() < 0.5.
carveCorridor(m, roomA, roomB, hFirst) ==
    IF hFirst
    THEN carveVerticalCorridor(
             carveHorizontalCorridor(m, roomA.centerX, roomB.centerX, roomA.centerY),
             roomA.centerY, roomB.centerY, roomB.centerX)
    ELSE carveHorizontalCorridor(
             carveVerticalCorridor(m, roomA.centerY, roomB.centerY, roomA.centerX),
             roomA.centerX, roomB.centerX, roomB.centerY)

\* roomDistance squared (the code compares square roots of these)
roomDistance2(a, b) ==
    (a.centerX - b.centerX) * (a.centerX - b.centerX)
  + (a.centerY - b.centerY) * (a.centerY - b.centerY)

\* maxDist < mapDiagonal * 0.4 on doubles.  In exact arithmetic this is
\* 100 d2 < 16 (w^2 + h^2); where the two sides are equal the doubles
\* sqrt(d2) and sqrt(w^2 + h^2) * 0.4 differ in the last bit on the square
\* maps of side 30, 35, 45, 55 and 60 (the product rounds up) and agree on
\* those of side 25, 40 and 50.
belowMinRequiredDist(d2, W, H) ==
    \/ 100 * d2 < 16 * (W * W + H * H)
    \/ /\ 100 * d2 = 16 * (W * W + H * H)
       /\ W = H
       /\ W \in {30, 35, 45, 55, 60}

\* The pairs (i, j), i < j, in the order the double loop visits them.
PairBefore(p, q) == p[1] < q[1] \/ (p[1] = q[1] /\ p[2] < q[2])

\* The furthest pair: the first pair, in loop order, of maximal distance
\* (dist > maxDist is strict); <<1, n>> when no pair has distance > 0.
furthestPair(rooms) ==
    LET n == Len(rooms)
        Pairs == {p \in (1..n) \X (1..n) : p[1] < p[2]}
        Far == {p \in Pairs :
                   /\ roomDistance2(rooms[p[1]], rooms[p[2]]) > 0
                   /\ \A q \in Pairs :
                         roomDistance2(rooms[q[1]], rooms[q[2]])
                           <= roomDistance2(rooms[p[1]], rooms[p[2]])}
    IN IF Far = {} THEN <<1, n>>
       ELSE CHOOSE p \in Far : \A q \in Far : p = q \/ PairBefore(p, q)

\* The first room, in list order, of minimal squared distance to (cx, cy),
\* among the rooms whose index is not `skip`.
nearestRoom(rooms, cx, cy, skip) ==
    LET d2(k) == (cx - rooms[k].centerX) * (cx - rooms[k].centerX)
               + (cy - rooms[k].centerY) * (cy - rooms[k].centerY)
        C == (1..Len(rooms)) \ {skip}
    IN CHOOSE k \in C : \A j \in C : d2(k) < d2(j) \/ (d2(k) = d2(j) /\ k <= j)

\* findStartAndExit: indices into rooms of the start and the exit room.
findStartAndExit(m) ==
    LET n == Len(m.rooms)
        best == furthestPair(m.rooms)
        maxDist2 == IF n >= 2
                    THEN roomDistance2(m.rooms[best[1]], m.rooms[best[2]])
                    ELSE 0
    IN IF belowMinRequiredDist(maxDist2, m.width, m.height) /\ n >= 2
       THEN LET s == nearestRoom(m.rooms, 0, 0, 0)
            IN <<s, nearestRoom(m.rooms, m.width, m.height, s)>>
       ELSE best

MazeInit ==
    \E size \in MapSizes :
        mz = [width |-> size, height |-> size,
              tiles |-> {},
              rooms |-> <<>>, pc |-> "rooms", i |-> 0,
              startRoom |-> 0, exitRoom |-> 0]

\* One pass of the room loop of generate(): draw a room, keep it unless it
\* overlaps a placed room (padding 2).
PlaceRoom ==
    /\ mz.pc = "rooms"
    /\ mz.i < roomAttempts(mz)
    /\ \E roomWidth \in randomInt(minRoomSize(mz), maxRoomSize(mz)),
          roomHeight \in randomInt(minRoomSize(mz), maxRoomSize(mz)) :
         \E x \in randomInt(2, mz.width - roomWidth - 2),
            y \in randomInt(2, mz.height - roomHeight - 2) :
            \* the two sizes of a room are drawn at the same end of the range
            /\ roomWidth = roomHeight
            /\
               LET newRoom == NewRoom(x, y, roomWidth, roomHeight)
                   overlaps == \E k \in 1 .. Len(mz.rooms) :
                                  roomsOverlap(newRoom, mz.rooms[k], 2)
               IN mz' = IF overlaps
                        THEN [mz EXCEPT !.i = @ + 1]
                        ELSE [mz EXCEPT !.i = @ + 1,
                                        !.tiles = carveRoom(mz, newRoom),
                                        !.rooms = Append(@, newRoom)]
    /\ UNCHANGED <<grid, loop, fog, player, cm, combat, game, hist>>

\* The room loop is over: connectRooms() starts at i = 1 (the second room).
RoomsDone ==
    /\ mz.pc = "rooms"
    /\ mz.i >= roomAttempts(mz)
    /\ mz' = [mz EXCEPT !.pc = "connect", !.i = 1]
    /\ UNCHANGED <<grid, loop, fog, player, cm, combat, game, hist>>

\* One pass of connectRooms(): room i-1 to room i (0-based i).
ConnectStep ==
    /\ mz.pc = "connect"
    /\ mz.i < Len(mz.rooms)
    /\ \E hFirst \in BOOLEAN :
         mz' = [carveCorridor(mz, mz.rooms[mz.i], mz.rooms[mz.i + 1], hFirst)
                  EXCEPT !.i = @ + 1]
    /\ UNCHANGED <<grid, loop, fog, player, cm, combat, game, hist>>

ConnectDone ==
    /\ mz.pc = "connect"
    /\ mz.i >= Len(mz.rooms)
    /\ mz' = [mz EXCEPT !.pc = "extra", !.i = 0]
    /\ UNCHANGED <<grid, loop, fog, player, cm, combat, game, hist>>

\* One pass of addExtraCorridors(): two random rooms, joined when different.
ExtraStep ==
    /\ mz.pc = "extra"
    /\ mz.i < Len(mz.rooms) \div 2
    /\ \E a \in 1 .. Len(mz.rooms), b \in 1 .. Len(mz.rooms), hFirst \in BOOLEAN :
         mz' = [(IF a # b THEN carveCorridor(mz, mz.rooms[a], mz.rooms[b], hFirst)
                           ELSE mz)
                  EXCEPT !.i = @ + 1]
    /\ UNCHANGED <<grid, loop, fog, player, cm, combat, game, hist>>

\* addExtraCorridors() is over: findStartAndExit() and the return.
FindStartAndExit ==
    /\ mz.pc = "extra"
    /\ mz.i >= Len(mz.rooms) \div 2
    /\ LET se == findStartAndExit(mz)
       IN mz' = [mz EXCEPT !.pc = "done", !.startRoom = se[1], !.exitRoom = se[2]]
    /\ UNCHANGED <<grid, loop, fog, player, cm, combat, game, hist>>

NextMaze ==
    \/ PlaceRoom
    \/ RoomsDone
    \/ ConnectStep
    \/ ConnectDone
    \/ ExtraStep
    \/ FindStartAndExit


(***************************************************************************)
(* MazeGenerator: properties                                               *)
(***************************************************************************)
\* the floor tiles 4-adjacent to a tile of `from`
FloorNeighbours(m, from) ==
    UNION {{t \in {s - m.width, s + m.width} : t \in m.tiles}
             \cup {t \in {s - 1} : s % m.width # 0 /\ t \in m.tiles}
             \cup {t \in {s + 1} : t % m.width # 0 /\ t \in m.tiles} : s \in from}

\* flood fill over floor tiles: the tiles reachable from `frontier`
RECURSIVE FloodFill(_, _, _)
FloodFill(m, frontier, seen) ==
    IF frontier = {} THEN seen
    ELSE LET next == FloorNeighbours(m, frontier) \ seen
         IN FloodFill(m, next, seen \cup next)

StartCentre(m) ==
    TileIdx(m, m.rooms[m.startRoom].centerX, m.rooms[m.startRoom].centerY)

ReachableFromStart(m) ==
    IF StartCentre(m) \in m.tiles
    THEN FloodFill(m, {StartCentre(m)}, {StartCentre(m)})
    ELSE {}

Corner2(r, cx, cy) == Sq(cx - r.centerX) + Sq(cy - r.centerY)

CornerBiased(m) ==
    LET s == m.rooms[m.startRoom]
        e == m.rooms[m.exitRoom]
    IN /\ \A k \in 1 .. Len(m.rooms) : Corner2(s, 0, 0) <= Corner2(m.rooms[k], 0, 0)
       /\ m.exitRoom # m.startRoom
       /\ \A k \in (1 .. Len(m.rooms)) \ {m.startRoom} :
             Corner2(e, m.width, m.height) <= Corner2(m.rooms[k], m.width, m.height)

\* distance(start centre, exit centre) >= 0.4 * sqrt(width^2 + height^2)
FarApart(m) ==
    100 * roomDistance2(m.rooms[m.startRoom], m.rooms[m.exitRoom])
      >= 16 * (m.width * m.width + m.height * m.height)

\* C2 (as claimed): every returned maze has its start and exit centres at
\* least 0.4 of the map diagonal apart, or the corner-bias fallback applied.
C2_SeparationOrFallback ==
    mz.pc = "done" => FarApart(mz) \/ CornerBiased(mz)

\* C3 (as claimed): every returned maze has at least two rooms, and its
\* start room and exit room are two distinct rooms.
C3_TwoDistinctRooms ==
    mz.pc = "done" => Len(mz.rooms) >= 2 /\ mz.startRoom # mz.exitRoom

(***************************************************************************)
(* FogOfWar                                                                *)
(***************************************************************************)
TORCH_RADIUS == 120
LANTERN_RADIUS == 200
FLARE_RADIUS == 350
FOG_CREEP_SPEED == 25000
FLARE_FLIGHT_SPEED == 800
\* FIXED_TIMESTEP is 1000 / 60 ms: 60 updates per second
UPDATES_PER_SECOND == 60

\* positions: thirds of a world unit; time: thirds of a millisecond
PosScale == 3
MsScale == 3
\* dt * 1000 of one fixed step, in thirds of a millisecond (16.67 ms)
DT == (1000 * MsScale) \div UPDATES_PER_SECOND
\* visibility values are numerators over FogDen: 1 is FogDen, 0 is 0
FogDen == FOG_CREEP_SPEED * MsScale

\* Bounds of the fog model.
\* The fog grid is FogWidth x FogHeight tiles (the game builds it square,
\* of the maze's size).
FogHeight == 4
FogWidth == STARTING_MAP_SIZE
\* Torch upgrades bought before the level (+0.30 each; the shop sells 4).
MaxTorchUpgrades == 1
MaxLanterns == 1
MaxFlares == 1
\* The player changes position, places lanterns and throws flares only in
\* the first InputTicks updates of a level.
InputTicks == 2
\* Updates per level in SpecFog (a flare is in the air for at most 30).
FogHorizonTicks == 34
\* Updates per level in SpecFade: the fade of FOG_CREEP_SPEED takes 1500.
FadeHorizonTicks == 1503

\* Player positions (world units): two spots of the middle row, far apart.
SpotA == <<100 * PosScale, 60 * PosScale>>
SpotB == <<700 * PosScale, 60 * PosScale>>
PlayerSpots == {SpotA, SpotB}

\* Mouse offsets from the player (world units) with their length: along an
\* axis or along a 3-4-5 direction, so that the unit vector is rational.  The
\* first is a click on the player, the second a throw of the minimal 400
\* units, the third a throw of three times the click distance.
Clicks == { [dx |-> 0,    dy |-> 0,  dist |-> 0],
            [dx |-> 50,   dy |-> 0,  dist |-> 50],
            [dx |-> 0,    dy |-> -200, dist |-> 200],
            [dx |-> -30,  dy |-> 40, dist |-> 50] }

FogTiles(f) == 0 .. f.width * f.height - 1
FogTileX(f, t) == t % f.width
FogTileY(f, t) == t \div f.width

\* MazeGenerator.tileToWorld, one coordinate: tile * TILE_SIZE + TILE_SIZE / 2
tileToWorld(tile) == (tile * TILE_SIZE + TILE_SIZE \div 2) * PosScale
\* MazeGenerator.worldToTile, one coordinate: floor(world / TILE_SIZE)
worldToTile(world) == world \div (TILE_SIZE * PosScale)

\* squared distance from the centre of tile (tx, ty) to the point (wx, wy)
TileDist2(tx, ty, wx, wy) == Sq(tileToWorld(tx) - wx) + Sq(tileToWorld(ty) - wy)

\* the torch radius lit by update(): TORCH_RADIUS * torchRadiusMultiplier,
\* in tenths of a scaled unit (the multiplier is kept in tenths)
torchLightRadius10(f) == TORCH_RADIUS * PosScale * f.torchRadiusMultiplier

\* lightTilesInRadius: the tiles of the square of side 2 * tileRadius + 1
\* around the centre tile, inside the grid, whose centre is within radius.
\* radius10 is the radius in tenths of a scaled unit.
litTiles(f, worldX, worldY, radius10) ==
    LET cx == worldToTile(worldX)
        cy == worldToTile(worldY)
        unit == TILE_SIZE * PosScale * 10
        tileRadius == (radius10 + unit - 1) \div unit + 1
    IN {t \in FogTiles(f) :
          /\ cx - tileRadius <= FogTileX(f, t) /\ FogTileX(f, t) <= cx + tileRadius
          /\ cy - tileRadius <= FogTileY(f, t) /\ FogTileY(f, t) <= cy + tileRadius
          /\ 100 * TileDist2(FogTileX(f, t), FogTileY(f, t), worldX, worldY)
               <= Sq(radius10)}

\* lighting that sets the permanent flag of a tile without stamping its
\* lastLitTime when the light is a permanent one
lightTilesFlagOnly(f, worldX, worldY, radius10, permanent) ==
    With([f |-> f, x |-> worldX, y |-> worldY, radius |-> radius10], LAMBDA a :
      With(litTiles(a.f, a.x, a.y, a.radius), LAMBDA lit :
        [a.f EXCEPT
           !.lastLitTime = [t \in FogTiles(a.f) |->
                               IF t \in lit /\ ~ permanent THEN a.f.currentTime ELSE @[t]],
           !.permanentlyLit = [t \in FogTiles(a.f) |->
                                  IF permanent /\ t \in lit THEN TRUE ELSE @[t]]]))

lightTilesInRadius(f, worldX, worldY, radius10, permanent) ==
    With([f |-> f, x |-> worldX, y |-> worldY, radius |-> radius10], LAMBDA a :
      With(litTiles(a.f, a.x, a.y, a.radius), LAMBDA lit :
        [a.f EXCEPT
           !.lastLitTime = [t \in FogTiles(a.f) |->
                               IF t \in lit THEN a.f.currentTime ELSE @[t]],
           !.permanentlyLit = [t \in FogTiles(a.f) |->
                                  IF permanent /\ t \in lit THEN TRUE ELSE @[t]]]))

\* the lanterns, then the landed flares, light their tiles permanently
RECURSIVE lightSources(_, _, _)
lightSources(f, sources, radius) ==
    IF sources = <<>> THEN f
    ELSE lightSources(
             lightTilesInRadius(f, Head(sources).x, Head(sources).y,
                                radius * PosScale * 10, TRUE),
             Tail(sources), radius)

\* hasReachedTarget: distance to the target < FLARE_FLIGHT_SPEED * 0.02
hasReachedTarget(flare) ==
    Sq(flare.targetX - flare.x) + Sq(flare.targetY - flare.y)
      < Sq((FLARE_FLIGHT_SPEED * 2 * PosScale) \div 100)

isOutsideMapBoundary(f, x, y) ==
    LET padding == TILE_SIZE * PosScale
        maxX == f.width * TILE_SIZE * PosScale - padding
        maxY == f.height * TILE_SIZE * PosScale - padding
    IN x < padding \/ x > maxX \/ y < padding \/ y > maxY

\* no clamp: the position as it is
unclamped(f, x, y) == [x |-> x, y |-> y]

clampToMapBoundary(f, x, y) ==
    LET padding == TILE_SIZE * PosScale
        maxX == f.width * TILE_SIZE * PosScale - padding
        maxY == f.height * TILE_SIZE * PosScale - padding
    IN [x |-> Max(padding, Min(maxX, x)), y |-> Max(padding, Min(maxY, y))]

\* a flying flare after flare.x += vx * dt, flare.y += vy * dt
movedFlare(flare) ==
    [flare EXCEPT !.x = @ + (flare.vx * PosScale) \div UPDATES_PER_SECOND,
                  !.y = @ + (flare.vy * PosScale) \div UPDATES_PER_SECOND]

\* whether the moved flare lands in this update
flareLands(f, flare) ==
    hasReachedTarget(flare) \/ isOutsideMapBoundary(f, flare.x, flare.y)

landFlare(x, y) ==
    [x |-> x, y |-> y, tileX |-> worldToTile(x), tileY |-> worldToTile(y)]

\* updateFlyingFlares: move every flare; those that reached their target or
\* left the boundary are clamped, appended to flares and taken out of
\* flyingFlares, in list order.
updateFlyingFlares(f) ==
    LET moved == [k \in 1 .. Len(f.flyingFlares) |-> movedFlare(f.flyingFlares[k])]
        lands(fl) == flareLands(f, fl)
        landed == SelectSeq(moved, lands)
        flying == SelectSeq(moved, LAMBDA fl : ~ lands(fl))
    IN [f EXCEPT
          !.flyingFlares = flying,
          !.flares = @ \o [k \in 1 .. Len(landed) |->
                             LET c == clampToMapBoundary(f, landed[k].x, landed[k].y)
                             IN landFlare(c.x, c.y)]]

\* update(playerX, playerY, dt) with dt the fixed step
update(f, playerX, playerY) ==
    With(updateFlyingFlares([f EXCEPT !.currentTime = @ + DT]), LAMBDA f2 :
      With(lightTilesInRadius(f2, playerX, playerY, torchLightRadius10(f2), FALSE),
           LAMBDA f3 :
        With(lightSources(f3, f3.lanterns, LANTERN_RADIUS), LAMBDA f4 :
          lightSources(f4, f4.flares, FLARE_RADIUS))))

\* the fade without its clamp to [0, 1]
fogCreepUnclamped(timeSinceLit) == FogDen - timeSinceLit

\* the fade of getTileVisibility: max(0, min(1, 1 - timeSinceLit / FOG_CREEP_SPEED))
fogCreep(timeSinceLit) == Max(0, Min(FogDen, FogDen - timeSinceLit))

\* whether getTileVisibility takes the tile as lit by the torch right now
litByTorch(f, tileX, tileY, playerX, playerY) ==
    TileDist2(tileX, tileY, playerX, playerY) <= Sq(TORCH_RADIUS * PosScale)

\* getTileVisibility, as a numerator over FogDen
getTileVisibility(f, tileX, tileY, playerX, playerY) ==
    LET lastLit == f.lastLitTime[tileY * f.width + tileX]
    IN IF lastLit = 0 THEN 0
       ELSE IF f.permanentlyLit[tileY * f.width + tileX] THEN FogDen
       ELSE IF litByTorch(f, tileX, tileY, playerX, playerY) THEN FogDen
       ELSE fogCreep(f.currentTime - lastLit)

isTileLit(f, tileX, tileY, playerX, playerY) ==
    getTileVisibility(f, tileX, tileY, playerX, playerY) = FogDen

isTileVisible(f, tileX, tileY, playerX, playerY) ==
    2 * getTileVisibility(f, tileX, tileY, playerX, playerY) > FogDen

placeLantern(f, worldX, worldY) ==
    [f EXCEPT !.lanterns = Append(@, [x |-> worldX, y |-> worldY,
                                      tileX |-> worldToTile(worldX),
                                      tileY |-> worldToTile(worldY)])]

\* launchFlare(playerX, playerY, targetX, targetY) with the mouse at
\* player + (click.dx, click.dy), |click| = click.dist
launchFlare(f, playerX, playerY, click) ==
    IF click.dist < 1 THEN f
    ELSE LET throwDistance == Max(400, click.dist * 3)
         IN [f EXCEPT !.flyingFlares = Append(@,
               [x |-> playerX, y |-> playerY,
                vx |-> (click.dx * FLARE_FLIGHT_SPEED) \div click.dist,
                vy |-> (click.dy * FLARE_FLIGHT_SPEED) \div click.dist,
                targetX |-> playerX + (click.dx * throwDistance * PosScale) \div click.dist,
                targetY |-> playerY + (click.dy * throwDistance * PosScale) \div click.dist])]

\* new FogOfWar(app, mazeWidth, mazeHeight), then setTorchRadiusMultiplier
NewFogOfWar(w, h, mult) ==
    [width |-> w, height |-> h,
     lastLitTime |-> [t \in 0 .. w * h - 1 |-> 0],
     permanentlyLit |-> [t \in 0 .. w * h - 1 |-> FALSE],
     lanterns |-> <<>>, flares |-> <<>>, flyingFlares |-> <<>>,
     currentTime |-> 0, torchRadiusMultiplier |-> mult]

\* Game.torchMultiplier after k torch upgrades: 1 + 0.30 k, in tenths
TorchMultipliers == {10 + 3 * k : k \in 0 .. MaxTorchUpgrades}

FogTicks == fog.currentTime \div DT

FogInit ==
    /\ \E mult \in TorchMultipliers : fog = NewFogOfWar(FogWidth, FogHeight, mult)
    /\ player = [x |-> SpotA[1], y |-> SpotA[2]]

\* Game.updateFogOfWar: fogOfWar.update(playerX, playerY, dt), the player
\* having moved to (or stayed at) one of the spots.
FogUpdate(horizon) ==
    /\ FogTicks < horizon
    /\ \E p \in PlayerSpots :
         /\ FogTicks < InputTicks \/ (p[1] = player.x /\ p[2] = player.y)
         /\ player' = [x |-> p[1], y |-> p[2]]
         /\ fog' = update(fog, p[1], p[2])
    /\ UNCHANGED <<grid, loop, mz, cm, combat, game, hist>>

\* Game.handleInput, KeyE: a lantern at the player's position
PlaceLantern ==
    /\ FogTicks < InputTicks
    /\ Len(fog.lanterns) < MaxLanterns
    /\ fog' = placeLantern(fog, player.x, player.y)
    /\ UNCHANGED <<grid, loop, mz, player, cm, combat, game, hist>>

\* Game.handleInput, KeyF: a flare thrown toward the mouse
LaunchFlare ==
    /\ FogTicks < InputTicks
    /\ Len(fog.flyingFlares) + Len(fog.flares) < MaxFlares
    /\ \E click \in Clicks :
         /\ fog' = launchFlare(fog, player.x, player.y, click)
    /\ UNCHANGED <<grid, loop, mz, player, cm, combat, game, hist>>

\* Game.startLevel: a new FogOfWar replaces the old one
FogStartLevel ==
    /\ fog.currentTime > 0
    /\ \E mult \in TorchMultipliers : fog' = NewFogOfWar(FogWidth, FogHeight, mult)
    /\ player' = [x |-> SpotA[1], y |-> SpotA[2]]
    /\ UNCHANGED <<grid, loop, mz, cm, combat, game, hist>>

NextFog ==
    \/ FogUpdate(FogHorizonTicks)
    \/ PlaceLantern
    \/ LaunchFlare
    \/ FogStartLevel

NextFade ==
    \/ FogUpdate(FadeHorizonTicks)
    \/ PlaceLantern

NextFlare ==
    \/ FogUpdate(FogHorizonTicks)
    \/ LaunchFlare
    \/ FogStartLevel


(***************************************************************************)
(* FogOfWar: properties                                                    *)
(***************************************************************************)
\* player positions a visibility query is made with: the spots the player
\* stands on and the far corner of the map
QuerySpots ==
    PlayerSpots \cup {<<FogWidth * TILE_SIZE * PosScale, FogHeight * TILE_SIZE * PosScale>>}

\* the visibility of tile t for a player at spot p
VisibilityAt(f, t, p) == getTileVisibility(f, FogTileX(f, t), FogTileY(f, t), p[1], p[2])

\* tile t's centre is within the effective torch radius (TORCH_RADIUS x
\* torch multiplier) of spot p
InEffectiveTorch(f, t, p) ==
    100 * TileDist2(FogTileX(f, t), FogTileY(f, t), p[1], p[2])
      <= Sq(TORCH_RADIUS * PosScale * f.torchRadiusMultiplier)

\* tile t was lit at some time and is neither permanent nor under the torch
\* of a player at p
FadingTile(f, t, p) ==
    /\ f.lastLitTime[t] # 0
    /\ ~ f.permanentlyLit[t]
    /\ ~ InEffectiveTorch(f, t, p)

\* the value of the fade at each elapsed time since the tile was lit
C4_Values ==
    \A t \in FogTiles(fog), p \in QuerySpots :
        FadingTile(fog, t, p) =>
            LET elapsed == fog.currentTime - fog.lastLitTime[t]
                v == VisibilityAt(fog, t, p)
            IN /\ 0 <= v /\ v <= FogDen
               /\ elapsed = 0 => v = FogDen
               /\ 2 * elapsed = FogDen => (0 < v /\ v < FogDen)
               /\ elapsed >= FogDen => v = 0

\* a step that does not light the tile again does not raise its visibility
C4_NonIncreasing ==
    \A t \in FogTiles(fog), p \in QuerySpots :
        (/\ FadingTile(fog, t, p)
         /\ FadingTile(fog', t, p)
         /\ fog'.lastLitTime[t] = fog.lastLitTime[t])
        => VisibilityAt(fog', t, p) <= VisibilityAt(fog, t, p)

\* C4: a non-permanent tile outside the torch radius, last lit at T and not
\* lit again, has visibility exactly 1 at T, strictly between 0 and 1 at
\* T + FOG_CREEP_SPEED / 2, exactly 0 from T + FOG_CREEP_SPEED on; the value
\* is non-increasing in the elapsed time and always within [0, 1].
C4_FogMonotone == [] C4_Values /\ [][C4_NonIncreasing]_vars

\* C4 witness: a tile lit by the torch on the first update, left behind by
\* the player, has faded to 0 after FOG_CREEP_SPEED ms.
C4_Witness ==
    \E t \in FogTiles(fog) :
        /\ FadingTile(fog, t, <<player.x, player.y>>)
        /\ fog.currentTime - fog.lastLitTime[t] = FogDen
        /\ VisibilityAt(fog, t, <<player.x, player.y>>) = 0

\* a step inside one level: startLevel, which builds a new FogOfWar, is not it
SameLevel == fog'.currentTime >= fog.currentTime

C5_AlwaysVisible ==
    \A t \in FogTiles(fog) :
        fog.permanentlyLit[t] =>
            \A p \in QuerySpots : VisibilityAt(fog, t, p) = FogDen

C5_NeverReverts ==
    SameLevel => \A t \in FogTiles(fog) : fog.permanentlyLit[t] => fog'.permanentlyLit[t]

\* C5: once permanentlyLit is true for a tile it stays true for the rest of
\* the level, and the tile's visibility is 1 at every tick for any player
\* position and any elapsed time.
C5_PermanentLight == [] C5_AlwaysVisible /\ [][C5_NeverReverts]_vars

\* C5 witness: a tile made permanent by a lantern that the player has left
\* behind, several updates after the lantern was placed.
C5_Witness ==
    /\ Len(fog.lanterns) >= 1
    /\ FogTicks >= InputTicks + 2
    /\ \E t \in FogTiles(fog) :
         /\ fog.permanentlyLit[t]
         /\ ~ InEffectiveTorch(fog, t, <<player.x, player.y>>)
         /\ VisibilityAt(fog, t, <<player.x, player.y>>) = FogDen

\* C6 (as claimed): an already-seen tile whose centre is within the
\* effective torch radius (TORCH_RADIUS x torch multiplier) of the queried
\* player position has visibility 1, and isTileLit is true.
C6_EffectiveTorchLit ==
    \A t \in FogTiles(fog), p \in QuerySpots :
        (fog.lastLitTime[t] # 0 /\ InEffectiveTorch(fog, t, p))
        => /\ VisibilityAt(fog, t, p) = FogDen
           /\ isTileLit(fog, FogTileX(fog, t), FogTileY(fog, t), p[1], p[2])

\* the landed flares lie inside the padded map boundary
FlaresInBounds ==
    \A k \in 1 .. Len(fog.flares) :
        ~ isOutsideMapBoundary(fog, fog.flares[k].x, fog.flares[k].y)

\* inside a level a landed flare stays in the list, where it is, and every
\* flare that was in the air is in the air or has landed
FlaresStay ==
    SameLevel =>
        /\ Len(fog'.flares) >= Len(fog.flares)
        /\ \A k \in 1 .. Len(fog.flares) : fog'.flares[k] = fog.flares[k]
        /\ Len(fog'.flares) + Len(fog'.flyingFlares)
             >= Len(fog.flares) + Len(fog.flyingFlares)
        /\ Len(fog'.flares) - Len(fog.flares) <= Len(fog.flyingFlares)

\* C7: a launched flare goes FLYING -> LANDED and nothing else: under
\* continued ticking it lands after finitely many ticks, its landing position
\* clamped inside the bounds; once landed it never moves, never flies again
\* and is not removed before the level ends.
C7_FlareStateMachine ==
    /\ [] FlaresInBounds
    /\ [][FlaresStay]_vars
    /\ (fog.flyingFlares # <<>>) ~> (fog.flyingFlares = <<>>)

\* C7 witness: a flare thrown past the right edge has landed on the boundary.
C7_Witness ==
    /\ fog.flyingFlares = <<>>
    /\ \E k \in 1 .. Len(fog.flares) :
         fog.flares[k].x = (fog.width * TILE_SIZE - TILE_SIZE) * PosScale

(***************************************************************************)
(* CreatureManager: scaling, spawning of crawlers, horde rush              *)
(***************************************************************************)
\* config/constants.ts (the crawler is the ZOMBIE of that file)
CRAWLER_BASE_HP == 20
CRAWLER_BASE_SPEED == 70
CRAWLER_SIZE == 20
MAX_CRAWLERS_ALIVE == 500

\* Multipliers of the creature manager are kept in thousandths, spawn rates
\* in tenths per second, speeds in thousandths of a unit per second.
MultScale == 1000

\* Bounds of the level model.
MaxLevel == 9
\* creatures created per level
MaxCreated == 2
\* creatures created in a game (nextId is never reset)
MaxIds == 3
\* calls of triggerHordeRush per level
MaxHordeCalls == 2

NewCreatureManager ==
    [creatures |-> <<>>, nextId |-> 0, currentLevel |-> 1,
     hpMultiplier |-> MultScale, speedMultiplier |-> MultScale,
     baseSpeedMultiplier |-> MultScale,
     spawnRate |-> 10, baseSpawnRate |-> 10, spawningEnabled |-> FALSE,
     maxCreaturesAlive |-> MAX_CRAWLERS_ALIVE, hordeRushActive |-> FALSE,
     spawnAccumulator |-> 0, spitterSpawnAccumulator |-> 0,
     broodmotherSpawnAccumulator |-> 0,
     playerRootedTime |-> 0, gooProjectiles |-> <<>>, gooPuddles |-> <<>>,
     playerInvisible |-> FALSE]

\* setPlayerInvisible(invisible)
setPlayerInvisible(c, invisible) == [c EXCEPT !.playerInvisible = invisible]

setScaling(c, hpMult, speedMult) ==
    [c EXCEPT !.hpMultiplier = hpMult, !.speedMultiplier = speedMult,
              !.baseSpeedMultiplier = speedMult]

setSpawnRate(c, rate) == [c EXCEPT !.spawnRate = rate, !.baseSpawnRate = rate]

setMaxCreaturesAlive(c, max) == [c EXCEPT !.maxCreaturesAlive = max]

\* x * 1.5
TimesOneAndAHalf(x) == (x * 3) \div 2

\* the horde rush without its hordeRushActive test
triggerHordeRushAgain(c) ==
    [c EXCEPT
        !.hordeRushActive = TRUE,
        !.spawnRate = c.baseSpawnRate * 6,
        !.speedMultiplier = TimesOneAndAHalf(@),
        !.maxCreaturesAlive = Min(800, @ * 2),
        !.creatures = [k \in 1 .. Len(@) |->
            IF @[k].alive /\ @[k].type = "crawler"
            THEN [@[k] EXCEPT !.speed = TimesOneAndAHalf(@)]
            ELSE @[k]]]

triggerHordeRush(c) ==
    IF c.hordeRushActive THEN c
    ELSE [c EXCEPT
            !.hordeRushActive = TRUE,
            !.spawnRate = c.baseSpawnRate * 6,
            !.speedMultiplier = TimesOneAndAHalf(@),
            !.maxCreaturesAlive = Min(800, @ * 2),
            !.creatures = [k \in 1 .. Len(@) |->
                IF @[k].alive /\ @[k].type = "crawler"
                THEN [@[k] EXCEPT !.speed = TimesOneAndAHalf(@)]
                ELSE @[k]]]

\* a start of a level that leaves the horde rush as it is
hordeRushKept(c) == c

resetHordeRush(c) ==
    [c EXCEPT !.hordeRushActive = FALSE, !.spawnRate = c.baseSpawnRate,
              !.speedMultiplier = c.baseSpeedMultiplier]

\* a clearing that leaves the goo and the root of the player
clearAllCreatures(c) == [c EXCEPT !.creatures = <<>>]

\* clearAll, as far as the creature list goes
clearAll(c) ==
    [c EXCEPT !.creatures = <<>>, !.gooProjectiles = <<>>, !.gooPuddles = <<>>,
              !.playerRootedTime = 0]

\* createCrawler(x, y); the hit points of a creature are in thousandths,
\* as the damage of a bullet times the damage multiplier is
\* a crawler made with the speed multiplier of the level, horde rush or not
createCrawlerAtBaseSpeed(c, x, y) ==
    LET hp == ((CRAWLER_BASE_HP * c.hpMultiplier) \div MultScale) * MultScale
    IN [c EXCEPT
          !.nextId = @ + 1,
          !.creatures = Append(@,
              [id |-> c.nextId, type |-> "crawler", x |-> x, y |-> y,
               hp |-> hp, maxHp |-> hp,
               speed |-> CRAWLER_BASE_SPEED * c.baseSpeedMultiplier,
               alive |-> TRUE, frozen |-> FALSE, frozenTime |-> 0,
               size |-> CRAWLER_SIZE])]

\* createCrawler(x, y): Math.floor(CRAWLER_BASE_HP * hpMultiplier) health
\* points, kept in thousandths
createCrawler(c, x, y) ==
    LET hp == ((CRAWLER_BASE_HP * c.hpMultiplier) \div MultScale) * MultScale
    IN [c EXCEPT
          !.nextId = @ + 1,
          !.creatures = Append(@,
              [id |-> c.nextId, type |-> "crawler", x |-> x, y |-> y,
               hp |-> hp, maxHp |-> hp,
               speed |-> CRAWLER_BASE_SPEED * c.speedMultiplier,
               alive |-> TRUE, frozen |-> FALSE, frozenTime |-> 0,
               size |-> CRAWLER_SIZE])]

\* the list without its elements at the indices in `gone`
RemoveAt(seq, gone) ==
    LET keep == {k \in 1 .. Len(seq) : k \notin gone}
        nth(n) == CHOOSE k \in keep : Cardinality({j \in keep : j <= k}) = n
    IN [n \in 1 .. Cardinality(keep) |-> seq[nth(n)]]

\* damageCreature(creatureId, damage): the manager afterwards
damageCreature(c, creatureId, damage) ==
    LET hit == {k \in 1 .. Len(c.creatures) : c.creatures[k].id = creatureId}
    IN IF hit = {} THEN c
       ELSE LET k == CHOOSE j \in hit : \A h \in hit : j <= h
                cr == c.creatures[k]
            IN IF ~ cr.alive THEN c
               ELSE IF cr.hp - damage <= 0
               THEN [c EXCEPT !.creatures = RemoveAt(@, {k})]
               ELSE [c EXCEPT !.creatures[k].hp = @ - damage]

\* a damageCreature that also reports a kill when the creature is no longer
\* in the list
damageCreatureKillsGone(c, creatureId, damage) ==
    \/ \A k \in 1 .. Len(c.creatures) : c.creatures[k].id # creatureId
    \/ \E k \in 1 .. Len(c.creatures) :
          /\ c.creatures[k].id = creatureId
          /\ c.creatures[k].alive
          /\ c.creatures[k].hp - damage <= 0

\* damageCreature's result: whether the creature was killed
damageCreatureKills(c, creatureId, damage) ==
    \E k \in 1 .. Len(c.creatures) :
        /\ c.creatures[k].id = creatureId
        /\ \A j \in 1 .. k - 1 : c.creatures[j].id # creatureId
        /\ c.creatures[k].alive
        /\ c.creatures[k].hp - damage <= 0

(***************************************************************************)
(* Game: level start                                                       *)
(***************************************************************************)
\* the map size without its cap
getMapSizeUncapped(level) == STARTING_MAP_SIZE + (level - 1) * MAP_SIZE_INCREMENT

getMapSize(level) ==
    Min(MAX_MAP_SIZE, STARTING_MAP_SIZE + (level - 1) * MAP_SIZE_INCREMENT)

\* Math.floor(25 + sizeDiff * 0.85) with sizeDiff = mapSize - 25
parTimeOf(mapSize) == (2500 + (mapSize - 25) * 85) \div 100

\* a start of a level that heals the player and refills the lanterns
gameStartLevelRefilled(g, level) ==
    [g EXCEPT !.currentLevel = level, !.inShop = FALSE, !.levelTime = 0,
              !.hordeTriggeredThisLevel = FALSE,
              !.mapSize = getMapSize(level),
              !.parTime = parTimeOf(getMapSize(level)),
              !.playerHP = g.playerMaxHP, !.lanternCount = 2]

\* Game.startLevel: the fields of Game it sets
gameStartLevel(g, level) ==
    [g EXCEPT !.currentLevel = level, !.inShop = FALSE, !.levelTime = 0,
              !.hordeTriggeredThisLevel = FALSE,
              !.mapSize = getMapSize(level),
              !.parTime = parTimeOf(getMapSize(level))]

\* Game.startLevel: what it does to the creature manager
cmStartLevel(c, level) ==
    LET c1 == clearAll(c)
        \* 1 + (level - 1) * 0.2 and 1 + (level - 1) * 0.05
        c2 == setScaling(c1, MultScale + (level - 1) * 200,
                             MultScale + (level - 1) * 50)
        \* 0.8 + (level - 1) * 0.3
        c3 == setSpawnRate(c2, 8 + (level - 1) * 3)
        c4 == resetHordeRush([c3 EXCEPT !.currentLevel = level])
        c5 == setMaxCreaturesAlive(c4, Min(500, 50 + (level - 1) * 30))
    IN [c5 EXCEPT !.spawningEnabled = TRUE]

PLAYER_MAX_HP == 50

\* the ids of the upgrades of the shop
UpgradeIds ==
    {"rifle", "shotgun", "gatling", "scythe", "firerate", "bulletdamage",
     "maxhp", "speed", "torch", "healthpack", "lantern", "flare",
     "teleporter", "shockwave"}

\* new Shop(...): nothing is purchased
NewShop == [id \in UpgradeIds |-> 0]

\* new PowerUpSystem(): no power-up lies in the maze, no effect is active
NoPowerUp == [type |-> "none", x |-> 0, y |-> 0]
NewPowerUpSystem == [spawnedPowerUp |-> NoPowerUp, activeEffects |-> <<>>]

\* The fields of Game.  playerHP, playerMaxHP and levelDamageTaken are in
\* sixtieths of a point; damageMultiplier, fireRateMultiplier and
\* speedMultiplier are in thousandths, torchMultiplier is in tenths; the
\* times are in thirds of a millisecond.  shop holds the purchase counts
\* of this.shop.
NewGame ==
    [currentLevel |-> 0, inShop |-> FALSE, levelTime |-> 0,
     hordeTriggeredThisLevel |-> FALSE, mapSize |-> 0, parTime |-> 0,
     onTitleScreen |-> TRUE, gameOver |-> FALSE,
     points |-> 0, cumulativePoints |-> 0, lastKillCount |-> 0,
     playerHP |-> PLAYER_MAX_HP * UPDATES_PER_SECOND,
     playerMaxHP |-> PLAYER_MAX_HP * UPDATES_PER_SECOND,
     damageMultiplier |-> MultScale, fireRateMultiplier |-> MultScale,
     speedMultiplier |-> MultScale, torchMultiplier |-> 10,
     levelStartGracePeriod |-> 0,
     levelDamageTaken |-> 0, totalTime |-> 0,
     lanternCount |-> 2, flareCount |-> 1,
     teleporterCount |-> 0, shockwaveCount |-> 0,
     isTeleporting |-> FALSE, teleportProgress |-> 0,
     shockwaveActive |-> FALSE, shockwaveProgress |-> 0,
     pendingBonuses |-> <<>>,
     shop |-> NewShop, powerUpSystem |-> NewPowerUpSystem,
     playerVelX |-> 0, playerVelY |-> 0, pc |-> 0]

\* new GameLoop(updateFn, renderFn)
NewGameLoop == [lastTime |-> 0, accumulator |-> 0, isRunning |-> FALSE]

\* the record of a frame of the game loop: whether the loop was started,
\* whether loop() ran, the time since the last frame, the accumulator before,
\* the delta added, the dt of each call of updateFn, the interpolation
NoFrame ==
    [started |-> FALSE, ran |-> FALSE, elapsed |-> 0, before |-> 0, added |-> 0,
     calls |-> <<>>, interpolation |-> 0]

\* what the properties need to remember of the run: calls of the horde
\* trigger and crawlers created in this level; updates of the combat system
\* made, and the shots and the target count of the last of them; the clock
\* (performance.now), the frames and stops of the game loop so far and the
\* record of the last frame; the updates of the goo made, the projectiles
\* fired, the steps the player walked and the roots that came onto the
\* player in the last update
NewHist ==
    [hordeCalls |-> 0, created |-> 0, combatTicks |-> 0, shots |-> <<>>,
     numTargets |-> 0,
     now |-> 0, frames |-> 0, stops |-> 0, frame |-> NoFrame,
     gooTicks |-> 0, goos |-> 0, steps |-> 0, roots |-> <<>>,
     ticks |-> 0, inputs |-> 0, calls |-> <<>>, asked |-> {}, spawned |-> <<>>,
     fogBefore |-> NewFogOfWar(0, 0, 10), playerBefore |-> [x |-> 0, y |-> 0],
     busyBefore |-> FALSE, long |-> FALSE, since |-> <<>>, pressed |-> {},
     damage |-> 0,
     struck |-> <<>>,
     spitTicks |-> 0, ghosts |-> 0, moves |-> 0, fired |-> 0, wound |-> 0,
     aimed |-> [x |-> 0, y |-> 0],
     failed |-> {}, lost |-> {}, again |-> {}, tries |-> 0,
     powerUpFailed |-> FALSE,
     gridOp |-> [op |-> "", id |-> 0, moved |-> FALSE]]

\* startNewGame: startLevel(1)
LevelInit ==
    /\ game = gameStartLevel(NewGame, 1)
    /\ cm = cmStartLevel(NewCreatureManager, 1)
    /\ hist = NewHist

\* closeShop / completeLevel: startLevel(currentLevel + 1)
StartNextLevel ==
    /\ game.currentLevel < MaxLevel
    /\ game' = gameStartLevel(game, game.currentLevel + 1)
    /\ cm' = cmStartLevel(cm, game.currentLevel + 1)
    /\ hist' = NewHist
    /\ UNCHANGED <<grid, loop, mz, fog, player, combat>>

\* restartGame: startLevel(1)
RestartGame ==
    /\ game.currentLevel > 1
    /\ game' = gameStartLevel(game, 1)
    /\ cm' = cmStartLevel(cm, 1)
    /\ hist' = NewHist
    /\ UNCHANGED <<grid, loop, mz, fog, player, combat>>

\* a crawler is created (by the spawner or by a broodmother)
CreateCrawler ==
    /\ hist.created < MaxCreated
    /\ cm.nextId < MaxIds
    /\ cm' = createCrawler(cm, 0, 0)
    /\ hist' = [hist EXCEPT !.created = @ + 1]
    /\ UNCHANGED <<grid, loop, mz, fog, player, combat, game>>

\* a creature is killed: damageCreature with a lethal damage
KillCreature ==
    /\ \E k \in 1 .. Len(cm.creatures) :
         cm' = damageCreature(cm, cm.creatures[k].id, cm.creatures[k].hp)
    /\ UNCHANGED <<grid, loop, mz, fog, player, combat, game, hist>>

\* the horde-trigger operation: creatureManager.triggerHordeRush()
TriggerHordeRush ==
    /\ hist.hordeCalls < MaxHordeCalls
    /\ cm' = triggerHordeRush(cm)
    /\ hist' = [hist EXCEPT !.hordeCalls = @ + 1]
    /\ UNCHANGED <<grid, loop, mz, fog, player, combat, game>>

NextLevel ==
    \/ StartNextLevel
    \/ RestartGame
    \/ CreateCrawler
    \/ KillCreature
    \/ TriggerHordeRush

(***************************************************************************)
(* Level start and horde rush: properties                                  *)
(***************************************************************************)
\* a call of the horde trigger that is not the first of its level
HordeCalledAgain ==
    hist.hordeCalls >= 1 /\ hist'.hordeCalls = hist.hordeCalls + 1

\* the population cap startLevel sets for the level
LevelCap == Min(500, 50 + (game.currentLevel - 1) * 30)

\* after one or more calls, everything is multiplied exactly once
HordeAppliedOnce ==
    hist.hordeCalls >= 1 =>
        /\ cm.hordeRushActive
        /\ cm.spawnRate = 6 * cm.baseSpawnRate
        /\ 2 * cm.speedMultiplier = 3 * cm.baseSpeedMultiplier
        /\ cm.maxCreaturesAlive = Min(800, 2 * LevelCap)
        /\ \A k \in 1 .. Len(cm.creatures) :
              (cm.creatures[k].alive /\ cm.creatures[k].type = "crawler")
              => 2 * cm.creatures[k].speed
                   = 3 * CRAWLER_BASE_SPEED * cm.baseSpeedMultiplier

\* C9: within one level, calling the horde trigger again leaves exactly the
\* state the first call left: spawn rate, speed multiplier, population cap
\* and every alive crawler's speed are multiplied once, never compounded.
C9_HordeIdempotent ==
    [] HordeAppliedOnce /\ [][HordeCalledAgain => cm' = cm]_vars

\* C9 witness: the trigger was called twice in a level with a crawler alive.
C9_Witness ==
    /\ hist.hordeCalls >= 2
    /\ cm.hordeRushActive
    /\ \E k \in 1 .. Len(cm.creatures) : cm.creatures[k].alive

\* C10: for every level L >= 1 the map size is min(60, 25 + 5 (L - 1)) and the
\* par time is floor(25 + 0.85 (mapSize - 25)) seconds: 25 s at map size 25,
\* 54 s at map size 60.
C10_MapSizeAndParTime ==
    LET L == game.currentLevel
        linear == 25 + 5 * (L - 1)
    IN L >= 1 =>
         /\ game.mapSize = (IF linear > 60 THEN 60 ELSE linear)
         /\ 100 * game.parTime <= 2500 + 85 * (game.mapSize - 25)
         /\ 2500 + 85 * (game.mapSize - 25) < 100 * (game.parTime + 1)
         /\ game.mapSize = 25 => game.parTime = 25
         /\ game.mapSize = 60 => game.parTime = 54

\* C10 witness: a level past the cap, on the 60 x 60 map with par time 54 s.
C10_Witness ==
    /\ game.currentLevel >= 9
    /\ game.mapSize = 60
    /\ game.parTime = 54

(***************************************************************************)
(* CombatSystem                                                            *)
(***************************************************************************)
\* WEAPON_STATS from config/constants.ts: damage, fire rate in tenths of a
\* shot per second (the shotgun fires 1.5 per second), range in world units
WEAPON_STATS ==
    [pistol  |-> [damage |-> 10, fireRate10 |-> 40,  range |-> 250],
     rifle   |-> [damage |-> 8,  fireRate10 |-> 100, range |-> 300],
     shotgun |-> [damage |-> 6,  fireRate10 |-> 15,  range |-> 180],
     gatling |-> [damage |-> 5,  fireRate10 |-> 250, range |-> 280]]

\* WEAPON_PRIORITY, highest first: gatling 4, rifle 3, shotgun 2, pistol 1
WeaponsByPriority == <<"gatling", "rifle", "shotgun", "pistol">>
WeaponTypes == {"pistol", "rifle", "shotgun", "gatling"}

BULLET_SPEED == 600
SHOTGUN_PELLETS == 5

\* cooldowns and bullet lifetimes: 1/300 of a second, so that the fixed step
\* (1/60 s) and the four fire intervals (1/4, 1/10, 1/1.5, 1/25 s) are exact
CoolScale == 300
CoolDT == CoolScale \div UPDATES_PER_SECOND
\* a bullet's lifetime: 0.7 s
BulletLifetime == (7 * CoolScale) \div 10

\* Bounds of the combat model.
\* updates of the combat system per level
CombatHorizonTicks == 12
\* creatures come into the arena only before this update
CombatSpawnTicks == 1

NewCombatSystem ==
    [bullets |-> <<>>,
     ownedWeapons |-> {"pistol"},
     fireCooldowns |-> [w \in WeaponTypes |-> 0],
     damageMultiplier |-> MultScale, fireRateMultiplier |-> MultScale,
     killCount |-> 0, hasScythe |-> FALSE,
     scytheAngle |-> 0, scytheHitCooldowns |-> <<>>]

addWeapon(co, weapon) == [co EXCEPT !.ownedWeapons = @ \cup {weapon}]

\* 1 / (fireRate * fireRateMultiplier), in 1/300 s; the multiplier is in
\* thousandths
getFireInterval(co, weapon) ==
    (CoolScale * 10 * MultScale)
        \div (WEAPON_STATS[weapon].fireRate10 * co.fireRateMultiplier)

getRange(weapon) == WEAPON_STATS[weapon].range

\* CreatureManager.getCreatures: the alive creatures, in list order
getCreatures(c) == SelectSeq(c.creatures, LAMBDA cr : cr.alive)

\* Math.ceil(dist / (TILE_SIZE / 2)) for dist = sqrt(d2), d2 > 0
losSteps(d2) ==
    CHOOSE n \in 1 .. 64 :
        /\ Sq(n * (TILE_SIZE \div 2) * PosScale) >= d2
        /\ Sq((n - 1) * (TILE_SIZE \div 2) * PosScale) < d2

\* hasLineOfSight: the points at every 1/steps of the segment, ends
\* excluded, all on in-bounds floor tiles
hasLineOfSight(m, x1, y1, x2, y2) ==
    LET dx == x2 - x1
        dy == y2 - y1
        d2 == Sq(dx) + Sq(dy)
    IN IF d2 < Sq(PosScale) THEN TRUE
       ELSE LET steps == losSteps(d2)
            IN \A i \in 1 .. steps - 1 :
                  LET tx == (x1 * steps + dx * i) \div (steps * TILE_SIZE * PosScale)
                      ty == (y1 * steps + dy * i) \div (steps * TILE_SIZE * PosScale)
                  IN /\ tx >= 0 /\ tx < m.width /\ ty >= 0 /\ ty < m.height
                     /\ TileAt(m, tx, ty) = FLOOR

\* Array.sort((a, b) => a.dist - b.dist): stable, nearest first
SortByDist(seq) ==
    LET n == Len(seq)
        before(j, k) ==
            \/ seq[j].dist2 < seq[k].dist2
            \/ seq[j].dist2 = seq[k].dist2 /\ j < k
        place == {<<Cardinality({j \in 1 .. n : before(j, k)}) + 1, k>> : k \in 1 .. n}
    IN [i \in 1 .. n |-> seq[CHOOSE k \in 1 .. n : <<i, k>> \in place]]

\* the creatures nearer than the longest range, lit or not, seen or not
getAllCreaturesSortedByDistance(co, c, f, m, playerX, playerY) ==
    LET maxRange == Max(0, CHOOSE r \in {getRange(w) : w \in co.ownedWeapons} :
                               \A w \in co.ownedWeapons : getRange(w) <= r)
        d2(cr) == Sq(cr.x - playerX) + Sq(cr.y - playerY)
        near(cr) == d2(cr) < Sq(maxRange * PosScale)
        seen == SelectSeq(getCreatures(c), near)
    IN SortByDist([k \in 1 .. Len(seen) |->
                     [id |-> seen[k].id, x |-> seen[k].x, y |-> seen[k].y,
                      dist2 |-> d2(seen[k])]])

\* getAllVisibleCreaturesSortedByDistance: the alive creatures nearer than
\* the longest range of an owned weapon, on a lit tile, in line of sight;
\* each with its squared distance
getAllVisibleCreaturesSortedByDistance(co, c, f, m, playerX, playerY) ==
    LET maxRange == Max(0, CHOOSE r \in {getRange(w) : w \in co.ownedWeapons} :
                               \A w \in co.ownedWeapons : getRange(w) <= r)
        d2(cr) == Sq(cr.x - playerX) + Sq(cr.y - playerY)
        visible(cr) ==
            /\ d2(cr) < Sq(maxRange * PosScale)
            /\ isTileLit(f, worldToTile(cr.x), worldToTile(cr.y), playerX, playerY)
            /\ hasLineOfSight(m, playerX, playerY, cr.x, cr.y)
        seen == SelectSeq(getCreatures(c), visible)
    IN SortByDist([k \in 1 .. Len(seen) |->
                     [id |-> seen[k].id, x |-> seen[k].x, y |-> seen[k].y,
                      dist2 |-> d2(seen[k])]])

\* a target search that does not look at the ids already claimed
findNearestTargetUnclaimed(weapon, sortedCreatures, excludeIds) ==
    LET ok == {k \in 1 .. Len(sortedCreatures) :
                  sortedCreatures[k].dist2 < Sq(getRange(weapon) * PosScale)}
    IN IF ok = {} THEN 0 ELSE CHOOSE k \in ok : \A j \in ok : k <= j

\* findNearestAvailableTarget: the index in sortedCreatures of the first
\* creature within the weapon's range and not in excludeIds; 0 for null
findNearestAvailableTarget(weapon, sortedCreatures, excludeIds) ==
    LET ok == {k \in 1 .. Len(sortedCreatures) :
                  /\ sortedCreatures[k].dist2 < Sq(getRange(weapon) * PosScale)
                  /\ sortedCreatures[k].id \notin excludeIds}
    IN IF ok = {} THEN 0 ELSE CHOOSE k \in ok : \A j \in ok : k <= j

\* floor(sqrt(d2))
RECURSIVE IsqrtBetween(_, _, _)
IsqrtBetween(d2, lo, hi) ==
    IF lo >= hi THEN lo
    ELSE LET mid == (lo + hi + 1) \div 2
         IN IF Sq(mid) <= d2 THEN IsqrtBetween(d2, mid, hi)
            ELSE IsqrtBetween(d2, lo, mid - 1)
Isqrt(d2) == IsqrtBetween(d2, 0, 8192)

\* n / d rounded to the nearest integer, d > 0
RoundDiv(n, d) == (2 * n + d) \div (2 * d)

\* cos and sin, in thousandths, of the spread offset (i - 2) * 0.4 / 5 rad of
\* pellet i: 0, +-0.08, +-0.16 rad
PelletCos(j) == IF j = 0 THEN 1000 ELSE IF j \in {-1, 1} THEN 997 ELSE 987
PelletSin(j) == IF j = 0 THEN 0
                ELSE IF j = 1 THEN 80 ELSE IF j = -1 THEN -80
                ELSE IF j = 2 THEN 159 ELSE -159

\* createBullet at the player, flying along (dx, dy) turned by the offset j.
\* vx and vy are kept per fixed step, in thirds of a unit: BULLET_SPEED / 60
\* units along the direction, rounded to the third of a unit (exact for the
\* directions along an axis or along a 3-4-5 triangle with no offset).
createBullet(x, y, dx, dy, j, damage) ==
    LET dist == Isqrt(Sq(dx) + Sq(dy))
        step == (BULLET_SPEED * PosScale) \div UPDATES_PER_SECOND
    IN [x |-> x, y |-> y,
        vx |-> RoundDiv(step * (dx * PelletCos(j) - dy * PelletSin(j)), dist * 1000),
        vy |-> RoundDiv(step * (dx * PelletSin(j) + dy * PelletCos(j)), dist * 1000),
        damage |-> damage, lifetime |-> BulletLifetime]

\* shootWithWeapon: one bullet, or the shotgun's five pellets, toward the
\* target (a creature on the player's own position, for which the code draws
\* a random angle, does not occur in this model)
shootWithWeapon(co, playerX, playerY, target, weapon) ==
    LET dx == target.x - playerX
        dy == target.y - playerY
        damage == WEAPON_STATS[weapon].damage
    IN [co EXCEPT !.bullets = @ \o
          (IF weapon = "shotgun"
           THEN [i \in 1 .. SHOTGUN_PELLETS |->
                   createBullet(playerX, playerY, dx, dy, i - 3, damage)]
           ELSE <<createBullet(playerX, playerY, dx, dy, 0, damage)>>)]

\* cooldown > 0 on the doubles of the code.  A cooldown comes to 0 in exact
\* arithmetic only by counting a fire interval down in steps of 1/60 s; the
\* doubles 0.25 - 15/60 and 0.1 - 6/60 come out just above 0 (the pistol and
\* the rifle wait one more update), 1/1.5 - 40/60 comes out just below
cooldownPositive(weapon, cooldown) ==
    cooldown > 0 \/ (cooldown = 0 /\ weapon \in {"pistol", "rifle"})

\* the weapon loop of update(): st holds the combat system, the ids claimed
\* in this update, the number of weapons fired and the shots, in order
RECURSIVE fireWeapons(_, _, _, _, _)
fireWeapons(st, weapons, visibleCreatures, playerX, playerY) ==
    IF weapons = <<>> THEN st
    ELSE IF st.weaponsFired >= Min(Len(visibleCreatures), Cardinality(st.combat.ownedWeapons))
    THEN st
    ELSE LET weapon == Head(weapons)
             k == findNearestAvailableTarget(weapon, visibleCreatures, st.targetedThisFrame)
         IN IF cooldownPositive(weapon, st.combat.fireCooldowns[weapon]) \/ k = 0
            THEN fireWeapons(st, Tail(weapons), visibleCreatures, playerX, playerY)
            ELSE fireWeapons(
                   [combat |-> [shootWithWeapon(st.combat, playerX, playerY,
                                                visibleCreatures[k], weapon)
                                  EXCEPT !.fireCooldowns[weapon] =
                                            getFireInterval(st.combat, weapon)],
                    targetedThisFrame |-> st.targetedThisFrame \cup {visibleCreatures[k].id},
                    weaponsFired |-> st.weaponsFired + 1,
                    shots |-> Append(st.shots, [weapon |-> weapon,
                                                target |-> visibleCreatures[k].id])],
                   Tail(weapons), visibleCreatures, playerX, playerY)

\* the index in `creatures` of the first creature the bullet touches, or 0
bulletHit(b, creatures) ==
    LET hit == {k \in 1 .. Len(creatures) :
                   Sq(b.x - creatures[k].x) + Sq(b.y - creatures[k].y)
                     < Sq((creatures[k].size \div 2 + 4) * PosScale)}
    IN IF hit = {} THEN 0 ELSE CHOOSE k \in hit : \A j \in hit : k <= j

\* the bullet loop of updateBullets(), from bullet k on: st holds the
\* creature manager, the bullets that stay, the kill count and the ids of
\* the creatures the bullets have struck; `creatures` is the list
\* getCreatures() returned before the loop
RECURSIVE updateBulletsFrom(_, _, _, _, _, _)
updateBulletsFrom(st, k, bullets, creatures, m, damageMultiplier) ==
    IF k > Len(bullets) THEN st
    ELSE LET b == [bullets[k] EXCEPT !.x = @ + bullets[k].vx,
                                     !.y = @ + bullets[k].vy,
                                     !.lifetime = @ - CoolDT]
             tx == worldToTile(b.x)
             ty == worldToTile(b.y)
             inWall == \/ tx < 0 \/ tx >= m.width \/ ty < 0 \/ ty >= m.height
                       \/ TileAt(m, tx, ty) = WALL
             h == bulletHit(b, creatures)
             \* Math.floor(bullet.damage * damageMultiplier), in thousandths
             damage == ((b.damage * damageMultiplier) \div MultScale) * MultScale
             next == IF b.lifetime <= 0 \/ inWall THEN st
                     ELSE IF h = 0 THEN [st EXCEPT !.bullets = Append(@, b)]
                     ELSE [st EXCEPT
                             !.cm = damageCreature(@, creatures[h].id, damage),
                             !.struck = Append(@, creatures[h].id),
                             !.killCount =
                                 IF damageCreatureKills(st.cm, creatures[h].id, damage)
                                 THEN @ + 1 ELSE @]
         IN updateBulletsFrom(next, k + 1, bullets, creatures, m, damageMultiplier)

\* updateBullets(dt)
updateBullets(co, c, m) ==
    With(updateBulletsFrom([cm |-> c, bullets |-> <<>>, killCount |-> co.killCount,
                            struck |-> <<>>],
                           1, co.bullets, getCreatures(c), m, co.damageMultiplier),
         LAMBDA st : [combat |-> [co EXCEPT !.bullets = st.bullets,
                                            !.killCount = st.killCount],
                      cm |-> st.cm, struck |-> st.struck])

SCYTHE_DAMAGE == 15
SCYTHE_ROTATION_SPEED == 3
\* SCYTHE_HIT_COOLDOWN = 0.2 s
SCYTHE_HIT_COOLDOWN == (2 * CoolScale) \div 10
SCYTHE_RADIUS == 35
\* bladeHitRadius of updateScythe
BladeHitRadius == 30

\* The scythe turns SCYTHE_ROTATION_SPEED times a second: scytheAngle counts
\* the updates of the turn under way, 2 pi / ScytheSteps each.  cos and sin of
\* the angle after k updates, in thousandths.
ScytheSteps == UPDATES_PER_SECOND \div SCYTHE_ROTATION_SPEED
ScytheCos(k) == <<1000, 951, 809, 588, 309, 0, -309, -588, -809, -951, -1000, -951, -809, -588, -309, 0, 309, 588, 809, 951>>[k + 1]
ScytheSin(k) == <<0, 309, 588, 809, 951, 1000, 951, 809, 588, 309, 0, -309, -588, -809, -951, -1000, -951, -809, -588, -309>>[k + 1]

\* the hit cooldowns of the scythe after their countdown.  A cooldown comes
\* to 0 here after 12 updates; the double 0.2 - 12 dt is above 0, and the
\* entry is deleted one update later.
scytheCooled(cooldowns) ==
    SelectSeq([i \in 1 .. Len(cooldowns) |->
                  [cooldowns[i] EXCEPT !.cooldown = @ - CoolDT]],
              LAMBDA e : e.cooldown >= 0)

\* the ids of the creatures the blade at (bladeX, bladeY) hits: alive, not
\* on cooldown, nearer than bladeHitRadius + size / 2
scytheHitIds(co, c, bladeX, bladeY) ==
    {cr.id : cr \in {c.creatures[k] : k \in {j \in 1 .. Len(c.creatures) :
        /\ c.creatures[j].alive
        /\ \A i \in 1 .. Len(co.scytheHitCooldowns) :
              co.scytheHitCooldowns[i].id # c.creatures[j].id
        /\ Sq(c.creatures[j].x - bladeX) + Sq(c.creatures[j].y - bladeY)
             < Sq((BladeHitRadius + c.creatures[j].size \div 2) * PosScale)}}}

\* the ids of a set as a sequence, in ascending order
IdsInOrder(ids) ==
    [n \in 1 .. Cardinality(ids) |->
        CHOOSE i \in ids : Cardinality({j \in ids : j <= i}) = n]

\* updateScythe(dt, playerX, playerY): the blade turns, the hit cooldowns
\* run, and every creature the blade hits takes
\* Math.floor(SCYTHE_DAMAGE * damageMultiplier) once, through
\* damageCreature, and is put on cooldown.  The creatures have different
\* ids, so the hits do not depend on their order.
updateScythe(co, c, playerX, playerY) ==
    LET angle == (co.scytheAngle + 1) % ScytheSteps
        bladeX == playerX + RoundDiv(ScytheCos(angle) * SCYTHE_RADIUS * PosScale, 1000)
        bladeY == playerY + RoundDiv(ScytheSin(angle) * SCYTHE_RADIUS * PosScale, 1000)
        cooled == scytheCooled(co.scytheHitCooldowns)
        damage == ((SCYTHE_DAMAGE * co.damageMultiplier) \div MultScale) * MultScale
        hit == scytheHitIds([co EXCEPT !.scytheHitCooldowns = cooled], c, bladeX, bladeY)
        killed == {id \in hit : damageCreatureKills(c, id, damage)}
        hitNow == IdsInOrder(hit)
    IN [combat |-> [co EXCEPT
                      !.scytheAngle = angle,
                      !.scytheHitCooldowns =
                          cooled \o [n \in 1 .. Len(hitNow) |->
                                        [id |-> hitNow[n],
                                         cooldown |-> SCYTHE_HIT_COOLDOWN]],
                      !.killCount = @ + Cardinality(killed)],
        cm |-> [c EXCEPT !.creatures =
                   SelectSeq([k \in 1 .. Len(c.creatures) |->
                                 IF c.creatures[k].id \in hit
                                 THEN [c.creatures[k] EXCEPT !.hp = @ - damage]
                                 ELSE c.creatures[k]],
                             LAMBDA cr : cr.id \notin killed)]]

\* update() after the scythe: the cooldowns, the weapons and the bullets.
\* The result is the combat system and the creature manager afterwards, with
\* the shots of this update and the number of visible creatures it counted.
updateWeapons(co, c, f, m, playerX, playerY) ==
    LET cooled == [co EXCEPT !.fireCooldowns =
                      [w \in WeaponTypes |->
                         IF w \in co.ownedWeapons THEN @[w] - CoolDT ELSE @[w]]]
        visibleCreatures ==
            getAllVisibleCreaturesSortedByDistance(cooled, c, f, m, playerX, playerY)
        sortedWeapons == SelectSeq(WeaponsByPriority, LAMBDA w : w \in co.ownedWeapons)
        fired == IF visibleCreatures = <<>>
                 THEN [combat |-> cooled, shots |-> <<>>]
                 ELSE fireWeapons([combat |-> cooled, targetedThisFrame |-> {},
                                   weaponsFired |-> 0, shots |-> <<>>],
                                  sortedWeapons, visibleCreatures, playerX, playerY)
        after == updateBullets(fired.combat, c, m)
    IN [combat |-> after.combat, cm |-> after.cm,
        shots |-> fired.shots, numTargets |-> Len(visibleCreatures),
        struck |-> after.struck]

\* CombatSystem.update(dt, playerX, playerY)
combatUpdate(co, c, f, m, playerX, playerY) ==
    IF co.hasScythe
    THEN With(updateScythe(co, c, playerX, playerY), LAMBDA sc :
              updateWeapons(sc.combat, sc.cm, f, m, playerX, playerY))
    ELSE updateWeapons(co, c, f, m, playerX, playerY)

(***************************************************************************)
(* CombatSystem: the arena                                                 *)
(***************************************************************************)
\* A 25 x 25 maze of two rooms: room A (tiles 2..9 x 2..9), room B (tiles
\* 13..15 x 2..4) and the corridor between their centres, which leaves the
\* tiles 10..12 of row 3, between the player and room B, as walls.
CombatRoomA == NewRoom(2, 2, 8, 8)
CombatRoomB == NewRoom(13, 2, 3, 3)
CombatMaze ==
    LET m0 == [width |-> 25, height |-> 25, tiles |-> {},
               rooms |-> <<CombatRoomA, CombatRoomB>>,
               pc |-> "done", i |-> 0, startRoom |-> 1, exitRoom |-> 2]
        m1 == [m0 EXCEPT !.tiles = carveRoom(m0, CombatRoomA)]
        m2 == [m1 EXCEPT !.tiles = carveRoom(m1, CombatRoomB)]
    IN carveCorridor(m2, CombatRoomA, CombatRoomB, TRUE)

\* the player stands at (380, 140), on tile (9, 3) of room A
CombatPlayer == [x |-> 380 * PosScale, y |-> 140 * PosScale]

\* the fog of the level after a lantern was placed at the player's feet and
\* one update was made: the tiles within LANTERN_RADIUS are lit for good
CombatFog ==
    update(placeLantern(NewFogOfWar(25, 25, 10), CombatPlayer.x, CombatPlayer.y),
           CombatPlayer.x, CombatPlayer.y)

\* where crawlers come into the arena (world units): at 50, 100 and 150 from
\* the player; at 190, beyond the shotgun's range; in room B, lit but behind
\* the wall; at 230, within the pistol's range but on an unlit tile
CreatureSpots ==
    {<<330, 140>>, <<380, 240>>, <<260, 230>>, <<190, 140>>, <<540, 140>>, <<150, 140>>}

\* Game.startLevel as far as combat goes: new CombatSystem (a new game also
\* calls resetWeapons, which leaves the pistol)
CombatInit ==
    /\ mz = CombatMaze
    /\ fog = CombatFog
    /\ player = CombatPlayer
    /\ combat = NewCombatSystem
    /\ game = gameStartLevel(NewGame, 1)
    /\ cm = cmStartLevel(NewCreatureManager, 1)
    /\ loop = NewGameLoop
    /\ hist = NewHist

\* a weapon bought in the shop before the level: combatSystem.addWeapon
AddWeapon ==
    /\ hist.combatTicks = 0
    /\ \E w \in WeaponTypes \ combat.ownedWeapons : combat' = addWeapon(combat, w)
    /\ UNCHANGED <<grid, loop, mz, fog, player, cm, game, hist>>

\* a crawler is created at one of the spots
SpawnCrawler ==
    /\ hist.combatTicks < CombatSpawnTicks
    /\ hist.created < MaxCreated
    /\ cm.nextId < MaxIds
    /\ \E s \in CreatureSpots :
          cm' = createCrawler(cm, s[1] * PosScale, s[2] * PosScale)
    /\ hist' = [hist EXCEPT !.created = @ + 1]
    /\ UNCHANGED <<grid, loop, mz, fog, player, combat, game>>

\* one fixed step of the game loop: combatSystem.update(dt, player.x, player.y)
CombatUpdate ==
    /\ hist.combatTicks < CombatHorizonTicks
    /\ \E r \in {combatUpdate(combat, cm, fog, mz, player.x, player.y)} :
          /\ combat' = r.combat
          /\ cm' = r.cm
          /\ hist' = [hist EXCEPT !.combatTicks = @ + 1, !.shots = r.shots,
                                  !.numTargets = r.numTargets]
    /\ UNCHANGED <<grid, loop, mz, fog, player, game>>

NextCombat == AddWeapon \/ SpawnCrawler \/ CombatUpdate

(***************************************************************************)
(* CombatSystem: properties                                                *)
(***************************************************************************)
\* C8: within one update of the combat system no two weapons fire at the
\* same enemy: the shots of an update have pairwise different targets (and
\* pairwise different weapons), and they are no more than the enemies that
\* qualified as targets, so that with one such enemy at most one weapon fires.
C8_TargetExclusive ==
    /\ \A i, j \in 1 .. Len(hist.shots) :
          i # j => /\ hist.shots[i].target # hist.shots[j].target
                   /\ hist.shots[i].weapon # hist.shots[j].weapon
    /\ Len(hist.shots) <= hist.numTargets
    /\ \A i \in 1 .. Len(hist.shots) : hist.shots[i].weapon \in combat.ownedWeapons

\* C8 witness: an update in which two or more weapons fired.
C8_Witness == Len(hist.shots) >= 2

\* an update with one qualifying enemy, several weapons owned, one shot
C8_WitnessOneTarget ==
    /\ hist.numTargets = 1
    /\ Cardinality(combat.ownedWeapons) >= 2
    /\ hist.combatTicks = 1
    /\ Len(hist.shots) = 1

\* WEAPON_PRIORITY
WEAPON_PRIORITY == [gatling |-> 4, rifle |-> 3, shotgun |-> 2, pistol |-> 1]

\* the creature is a target for the weapon: nearer than the range of the
\* weapon, on a tile that is lit now, in line of sight of the player
Targetable(cr, weapon) ==
    /\ Sq(cr.x - player.x) + Sq(cr.y - player.y) < Sq(getRange(weapon) * PosScale)
    /\ isTileLit(fog, worldToTile(cr.x), worldToTile(cr.y), player.x, player.y)
    /\ hasLineOfSight(mz, player.x, player.y, cr.x, cr.y)

\* C27: every weapon that fires in an update fires at an alive enemy within
\* its own range, on a lit tile and in line of sight, and no such enemy that
\* the shots fired before it in the update left unclaimed is nearer to the
\* player; the weapons fire in the order gatling, rifle, shotgun, pistol.
C27_NearestInOwnRange ==
    [][hist'.combatTicks = hist.combatTicks + 1 =>
         LET shots == hist'.shots
             alive == getCreatures(cm)
             d2(cr) == Sq(cr.x - player.x) + Sq(cr.y - player.y)
         IN /\ \A i \in DOMAIN shots :
                  \E k \in DOMAIN alive :
                     /\ alive[k].id = shots[i].target
                     /\ Targetable(alive[k], shots[i].weapon)
                     /\ \A j \in DOMAIN alive :
                           (/\ Targetable(alive[j], shots[i].weapon)
                            /\ alive[j].id \notin {shots[h].target : h \in 1 .. i - 1})
                             => d2(alive[k]) <= d2(alive[j])
            /\ \A i, j \in DOMAIN shots :
                  i < j => WEAPON_PRIORITY[shots[i].weapon] > WEAPON_PRIORITY[shots[j].weapon]]_vars

\* in the first update the rifle and the pistol have fired and the shotgun,
\* owned and ready, has not: the enemy the rifle left is beyond its range
C27_Witness ==
    /\ hist.combatTicks = 1
    /\ {"rifle", "shotgun", "pistol"} \subseteq combat.ownedWeapons
    /\ Len(hist.shots) = 2
    /\ hist.shots[1].weapon = "rifle" /\ hist.shots[2].weapon = "pistol"

(***************************************************************************)
(* CreatureManager: goo projectiles, goo puddles and the root timer        *)
(***************************************************************************)
\* times of the creature manager are in thirds of a ms, as the fog's: one
\* update takes DT
SPITTER_GOO_SPEED == 300
\* GOO_PUDDLE_DURATION = 2 s, GOO_ROOT_DURATION = 1 s
GOO_PUDDLE_DURATION == 2 * 1000 * MsScale
GOO_PUDDLE_RADIUS == 30
GOO_ROOT_DURATION == 1 * 1000 * MsScale

\* fireGoo(spitter): a projectile from the spitter toward its target
fireGoo(c, spitter) ==
    [c EXCEPT !.gooProjectiles = Append(@,
        [x |-> spitter.x, y |-> spitter.y,
         targetX |-> spitter.targetX, targetY |-> spitter.targetY,
         speed |-> SPITTER_GOO_SPEED])]

\* createGooPuddle(x, y)
createGooPuddle(c, x, y) ==
    [c EXCEPT !.gooPuddles = Append(@,
        [x |-> x, y |-> y, radius |-> GOO_PUDDLE_RADIUS,
         duration |-> GOO_PUDDLE_DURATION])]

\* the direct hit: playerRootedTime = GOO_ROOT_DURATION
rootByHit(r, duration) == duration

\* the puddle: if (playerRootedTime <= 0) playerRootedTime = duration
rootByPuddle(r, duration) == IF r <= 0 THEN duration ELSE r

\* the record of a root coming onto the player: the timer before, the
\* duration of the root, the timer after
RootApplied(kind, before, duration, after) ==
    [kind |-> kind, before |-> before, duration |-> duration, after |-> after]

\* updateGooProjectiles, projectile i and those before it in the list (the
\* loop runs from the last to the first): st holds the creature manager and
\* the roots that came onto the player
RECURSIVE updateGooProjectilesFrom(_, _, _, _)
updateGooProjectilesFrom(st, i, playerX, playerY) ==
    IF i < 1 THEN st
    ELSE LET c == st.cm
             goo == c.gooProjectiles[i]
             dx == goo.targetX - goo.x
             dy == goo.targetY - goo.y
             d2 == Sq(dx) + Sq(dy)
             without == [c EXCEPT !.gooProjectiles = RemoveAt(@, {i})]
         IN IF d2 < Sq(10 * PosScale)
            THEN updateGooProjectilesFrom(
                     [st EXCEPT !.cm = createGooPuddle(without, goo.x, goo.y)],
                     i - 1, playerX, playerY)
            ELSE LET dist == Isqrt(d2)
                     step == (goo.speed * PosScale) \div UPDATES_PER_SECOND
                     x == goo.x + RoundDiv(dx * step, dist)
                     y == goo.y + RoundDiv(dy * step, dist)
                 IN IF Sq(x - playerX) + Sq(y - playerY) < Sq(20 * PosScale)
                    THEN updateGooProjectilesFrom(
                           [cm |-> [without EXCEPT !.playerRootedTime =
                                       rootByHit(@, GOO_ROOT_DURATION)],
                            roots |-> Append(st.roots,
                                RootApplied("hit", c.playerRootedTime, GOO_ROOT_DURATION,
                                            rootByHit(c.playerRootedTime, GOO_ROOT_DURATION)))],
                           i - 1, playerX, playerY)
                    ELSE updateGooProjectilesFrom(
                           [st EXCEPT !.cm.gooProjectiles[i].x = x,
                                      !.cm.gooProjectiles[i].y = y],
                           i - 1, playerX, playerY)

\* updateGooPuddles, puddle i and those before it in the list
RECURSIVE updateGooPuddlesFrom(_, _, _, _)
updateGooPuddlesFrom(st, i, playerX, playerY) ==
    IF i < 1 THEN st
    ELSE LET c == st.cm
             puddle == [c.gooPuddles[i] EXCEPT !.duration = @ - DT]
             inPuddle == Sq(playerX - puddle.x) + Sq(playerY - puddle.y)
                           < Sq(puddle.radius * PosScale)
             rooted == IF inPuddle
                       THEN rootByPuddle(c.playerRootedTime, GOO_ROOT_DURATION \div 2)
                       ELSE c.playerRootedTime
             c2 == [c EXCEPT !.playerRootedTime = rooted,
                             !.gooPuddles = IF puddle.duration <= 0
                                            THEN RemoveAt(@, {i})
                                            ELSE [@ EXCEPT ![i] = puddle]]
         IN updateGooPuddlesFrom(
                [cm |-> c2,
                 roots |-> IF inPuddle
                           THEN Append(st.roots,
                                  RootApplied("puddle", c.playerRootedTime,
                                              GOO_ROOT_DURATION \div 2, rooted))
                           ELSE st.roots],
                i - 1, playerX, playerY)

\* the start of CreatureManager.update: the root timer runs down, then the
\* projectiles, then the puddles
updateGoo(c, playerX, playerY) ==
    LET c1 == [c EXCEPT !.playerRootedTime = IF @ > 0 THEN Max(0, @ - DT) ELSE @]
        st1 == updateGooProjectilesFrom([cm |-> c1, roots |-> <<>>],
                                        Len(c1.gooProjectiles), playerX, playerY)
    IN updateGooPuddlesFrom(st1, Len(st1.cm.gooPuddles), playerX, playerY)

\* Bounds of the goo model.
\* updates per run
GooHorizonTicks == 60
\* a spitter fires only in the first GooFireTicks updates
GooFireTicks == 3
MaxGoos == 2
\* steps the player walks in a run
MaxPlayerSteps == 8

PLAYER_SPEED == 200

\* the spitter stands at (100, 140); the player starts at (200, 140) and
\* walks to the right, away from the spitter
SpitterSpot == [x |-> 100 * PosScale, y |-> 140 * PosScale]
GooPlayerStart == [x |-> 200 * PosScale, y |-> 140 * PosScale]

GooInit ==
    /\ cm = cmStartLevel(NewCreatureManager, 3)
    /\ player = GooPlayerStart
    /\ hist = NewHist

\* updateSpitter at the end of a windup: fireGoo at the target taken when
\* the windup began, which is where the player was then (the start) or is now
GooFire ==
    /\ hist.gooTicks < GooFireTicks
    /\ hist.goos < MaxGoos
    /\ \E target \in {GooPlayerStart, player} :
          cm' = fireGoo(cm, [x |-> SpitterSpot.x, y |-> SpitterSpot.y,
                             targetX |-> target.x, targetY |-> target.y])
    /\ hist' = [hist EXCEPT !.goos = @ + 1]
    /\ UNCHANGED <<grid, mz, fog, player, combat, game, loop>>

\* one fixed step: Game.updatePlayer (a rooted player does not move; a free
\* one stands or walks PLAYER_SPEED / 60 to the right), then the goo part of
\* CreatureManager.update
GooTick ==
    /\ hist.gooTicks < GooHorizonTicks
    /\ \E walk \in BOOLEAN :
         /\ walk => (cm.playerRootedTime <= 0 /\ hist.steps < MaxPlayerSteps)
         /\ player' = IF walk
                      THEN [player EXCEPT !.x = @ + (PLAYER_SPEED * PosScale)
                                                       \div UPDATES_PER_SECOND]
                      ELSE player
         /\ \E r \in {updateGoo(cm, player'.x, player'.y)} :
              /\ cm' = r.cm
              /\ hist' = [hist EXCEPT !.gooTicks = @ + 1, !.roots = r.roots,
                                      !.steps = IF walk THEN @ + 1 ELSE @]
    /\ UNCHANGED <<grid, mz, fog, combat, game, loop>>

NextGoo == GooFire \/ GooTick

(***************************************************************************)
(* Goo: properties                                                         *)
(***************************************************************************)
\* C13 (as claimed): whenever a root of duration D comes onto the player, by
\* a direct hit or by the contact with a puddle, while the root timer holds
\* r, the timer becomes max(r, D), never r + D; a direct hit of D1 followed
\* by a puddle root of D2 < D1 leaves the timer at D1.
C13_RootIsMax ==
    \A k \in 1 .. Len(hist.roots) :
        hist.roots[k].after = Max(hist.roots[k].before, hist.roots[k].duration)

\* the scenario of C13 alone: a direct hit and then a puddle root in the same
\* update leave the timer at GOO_ROOT_DURATION
C13_HitThenPuddle ==
    \A k \in 1 .. Len(hist.roots) - 1 :
        (hist.roots[k].kind = "hit" /\ hist.roots[k + 1].kind = "puddle")
        => hist.roots[k + 1].after = GOO_ROOT_DURATION

(***************************************************************************)
(* GameLoop: the frame-driven scheduler                                    *)
(***************************************************************************)
\* FIXED_TIMESTEP = 1000 / 60 ms and MAX_DELTA = 250 ms, in thirds of a ms
FIXED_TIMESTEP == (1000 * MsScale) \div UPDATES_PER_SECOND
MAX_DELTA == 250 * MsScale

\* Bounds of the scheduler model.
\* frames (and waits of the clock while the loop is stopped) per run
MaxFrames == 4
\* calls of stop() per run
MaxStops == 1

\* the time between two frames, in thirds of a ms: nothing, less than a
\* step, one step, several steps and a part, MAX_DELTA, and more than that
FrameDeltas == {0, 7, FIXED_TIMESTEP, 125, MAX_DELTA, MAX_DELTA + 1, 2400}

\* start()
loopStart(l, now) ==
    IF l.isRunning THEN l
    ELSE [l EXCEPT !.isRunning = TRUE, !.lastTime = now, !.accumulator = 0]

\* stop()
loopStop(l) == [l EXCEPT !.isRunning = FALSE]

\* the while loop of loop(): one call of updateFn per whole step in the
\* accumulator; r holds the accumulator and the calls made
RECURSIVE runFixedSteps(_)
runFixedSteps(r) ==
    IF r.accumulator >= FIXED_TIMESTEP
    THEN runFixedSteps([accumulator |-> r.accumulator - FIXED_TIMESTEP,
                        calls |-> Append(r.calls, FIXED_TIMESTEP)])
    ELSE r

\* the frame's delta without the cap of MAX_DELTA
frameDeltaUncapped(delta) == delta

\* delta capped: if (delta > MAX_DELTA) delta = MAX_DELTA
frameDelta(delta) == IF delta > MAX_DELTA THEN MAX_DELTA ELSE delta

\* loop(currentTime) while running: the loop afterwards, the dt of each
\* call of updateFn (in thirds of a ms) and the interpolation handed to
\* renderFn, as a numerator over FIXED_TIMESTEP
loopFrame(l, currentTime) ==
    LET delta == frameDelta(currentTime - l.lastTime)
        r == runFixedSteps([accumulator |-> l.accumulator + delta, calls |-> <<>>])
    IN [loop |-> [l EXCEPT !.lastTime = currentTime, !.accumulator = r.accumulator],
        added |-> delta,
        calls |-> r.calls,
        interpolation |-> r.accumulator]

LoopInit ==
    /\ loop = NewGameLoop
    /\ hist = NewHist

\* Game.start: gameLoop.start(), lastTime = performance.now()
LoopStart ==
    /\ ~ loop.isRunning
    /\ loop' = loopStart(loop, hist.now)
    /\ hist' = [hist EXCEPT !.frame = [NoFrame EXCEPT !.started = TRUE]]
    /\ UNCHANGED <<grid, mz, fog, player, cm, combat, game>>

LoopStop ==
    /\ loop.isRunning
    /\ hist.stops < MaxStops
    /\ loop' = loopStop(loop)
    /\ hist' = [hist EXCEPT !.stops = @ + 1, !.frame = NoFrame]
    /\ UNCHANGED <<grid, mz, fog, player, cm, combat, game>>

\* the clock goes on while the loop is stopped
LoopWait ==
    /\ ~ loop.isRunning
    /\ hist.frames < MaxFrames
    /\ \E d \in FrameDeltas :
          hist' = [hist EXCEPT !.now = @ + d, !.frames = @ + 1, !.frame = NoFrame]
    /\ UNCHANGED <<grid, mz, fog, player, cm, combat, game, loop>>

\* requestAnimationFrame calls loop(currentTime), d after the last reading
\* of the clock
LoopFrame ==
    /\ loop.isRunning
    /\ hist.frames < MaxFrames
    /\ \E d \in FrameDeltas :
         \E r \in {loopFrame(loop, hist.now + d)} :
            /\ loop' = r.loop
            /\ hist' = [hist EXCEPT
                  !.now = @ + d, !.frames = @ + 1,
                  !.frame = [started |-> TRUE, ran |-> TRUE, elapsed |-> d,
                             before |-> loop.accumulator, added |-> r.added,
                             calls |-> r.calls, interpolation |-> r.interpolation]]
    /\ UNCHANGED <<grid, mz, fog, player, cm, combat, game>>

NextLoop == LoopStart \/ LoopStop \/ LoopWait \/ LoopFrame

(***************************************************************************)
(* GameLoop: properties                                                    *)
(***************************************************************************)
\* C15: after start(), for frame timestamps that do not decrease, a frame
\* adds min(delta, 250 ms) to the accumulator, calls the simulation update
\* with dt = 1/60 s once per whole fixed step available, at most 15 times,
\* and leaves 0 <= accumulator < FIXED_TIMESTEP, so that the interpolation
\* handed to render is in [0, 1).
C15_FixedStepLoop ==
    /\ 0 <= loop.accumulator /\ loop.accumulator < FIXED_TIMESTEP
    /\ hist.frame.ran =>
         /\ hist.frame.added = Min(hist.frame.elapsed, 250 * MsScale)
         /\ \A k \in 1 .. Len(hist.frame.calls) :
               hist.frame.calls[k] * UPDATES_PER_SECOND = 1000 * MsScale
         /\ Len(hist.frame.calls) <= 15
         /\ Len(hist.frame.calls) * FIXED_TIMESTEP + loop.accumulator
              = hist.frame.before + hist.frame.added
         /\ 0 <= hist.frame.interpolation
         /\ hist.frame.interpolation < FIXED_TIMESTEP
         /\ hist.frame.interpolation = loop.accumulator

\* C15 witness: a frame that came later than MAX_DELTA after the one before
\* it, on an accumulator that held a remainder: 15 updates, a remainder left.
C15_Witness ==
    /\ hist.frame.ran
    /\ hist.frame.elapsed > MAX_DELTA
    /\ hist.frame.before > 0
    /\ Len(hist.frame.calls) = 15
    /\ loop.accumulator > 0

(***************************************************************************)
(* CreatureManager.update: continuous spawning and the creatures' updates  *)
(***************************************************************************)
CRAWLER_DAMAGE_PER_SECOND == 8
SPITTER_HP == 15
\* SPITTER_ATTACK_COOLDOWN = 3 s, SPITTER_WINDUP_TIME = 0.8 s
SPITTER_ATTACK_COOLDOWN == 3 * 1000 * MsScale
SPITTER_WINDUP_TIME == 800 * MsScale
SPITTER_RANGE == 250
BROODMOTHER_HP == 80
\* BROODMOTHER_SPAWN_COOLDOWN = 5 s
BROODMOTHER_SPAWN_COOLDOWN == 5 * 1000 * MsScale
BROODMOTHER_SPAWN_COUNT == 3
BROODMOTHER_SIZE == CRAWLER_SIZE * 2
SPITTER_START_LEVEL == 3
BROODMOTHER_START_LEVEL == 5

\* The spawn accumulators count twentieths of a creature per second, summed
\* over the updates: one creature is 60 * 20 of them.  An update adds
\* dt * spawnRate = 2 * spawnRate (kept in tenths), dt * 0.1 = 2, dt * 0.05 = 1.
SpawnOne == UPDATES_PER_SECOND * 20

\* FogOfWar.getEffectiveTorchRadius(): TORCH_RADIUS * torchRadiusMultiplier,
\* in tenths of a scaled unit
getEffectiveTorchRadius(f) == TORCH_RADIUS * PosScale * f.torchRadiusMultiplier

\* dist < radius + extra, for dist = sqrt(d2), radius10 in tenths of a scaled
\* unit and extra in world units
Nearer(d2, radius10, extra) == 100 * d2 < Sq(radius10 + extra * PosScale * 10)
Farther(d2, radius10, extra) == 100 * d2 > Sq(radius10 + extra * PosScale * 10)

\* createSpitter(x, y); draw is 0.5 + Math.random() * 0.5, in quarters
createSpitter(c, x, y, draw) ==
    LET hp == ((SPITTER_HP * c.hpMultiplier) \div MultScale) * MultScale
    IN [c EXCEPT
          !.nextId = @ + 1,
          !.creatures = Append(@,
              [id |-> c.nextId, type |-> "spitter", x |-> x, y |-> y,
               hp |-> hp, maxHp |-> hp, speed |-> 0,
               alive |-> TRUE, frozen |-> FALSE, frozenTime |-> 0,
               size |-> CRAWLER_SIZE,
               attackCooldown |-> (SPITTER_ATTACK_COOLDOWN * draw) \div 4,
               attackWindup |-> 0, isWindingUp |-> FALSE,
               targetX |-> 0, targetY |-> 0])]

\* createBroodMother(x, y)
createBroodMother(c, x, y, draw) ==
    LET hp == ((BROODMOTHER_HP * c.hpMultiplier) \div MultScale) * MultScale
    IN [c EXCEPT
          !.nextId = @ + 1,
          !.creatures = Append(@,
              [id |-> c.nextId, type |-> "broodmother", x |-> x, y |-> y,
               hp |-> hp, maxHp |-> hp, speed |-> 0,
               alive |-> TRUE, frozen |-> FALSE, frozenTime |-> 0,
               size |-> BROODMOTHER_SIZE,
               spawnCooldown |-> (BROODMOTHER_SPAWN_COOLDOWN * draw) \div 4,
               spawnCount |-> BROODMOTHER_SPAWN_COUNT])]

\* spawnSingleCrawler, the tests of one attempt without the isTileLit test
crawlerTileAcceptedLit(c, f, m, playerX, playerY, tile) ==
    LET radius10 == getEffectiveTorchRadius(f)
        d2 == TileDist2(tile.x, tile.y, playerX, playerY)
    IN /\ tile.x >= 0 /\ tile.x < m.width /\ tile.y >= 0 /\ tile.y < m.height
       /\ TileAt(m, tile.x, tile.y) = FLOOR
       /\ ~Nearer(d2, radius10, IF c.hordeRushActive THEN 40 ELSE 20)
       /\ ~(c.hordeRushActive /\ Farther(d2, radius10, 250))

\* spawnSingleCrawler, the tests of one attempt: the tile is in the maze, a
\* floor tile, not lit, not nearer than minSpawnDistance and, in a horde
\* rush, not farther than maxSpawnDistance
crawlerTileAccepted(c, f, m, playerX, playerY, tile) ==
    LET radius10 == getEffectiveTorchRadius(f)
        d2 == TileDist2(tile.x, tile.y, playerX, playerY)
    IN /\ tile.x >= 0 /\ tile.x < m.width /\ tile.y >= 0 /\ tile.y < m.height
       /\ TileAt(m, tile.x, tile.y) = FLOOR
       /\ ~isTileLit(f, tile.x, tile.y, playerX, playerY)
       /\ ~Nearer(d2, radius10, IF c.hordeRushActive THEN 40 ELSE 20)
       /\ ~(c.hordeRushActive /\ Farther(d2, radius10, 250))

\* spawnSpecialCreature, the tests of one attempt
specialTileAccepted(f, m, playerX, playerY, tile) ==
    /\ tile.x >= 0 /\ tile.x < m.width /\ tile.y >= 0 /\ tile.y < m.height
    /\ TileAt(m, tile.x, tile.y) = FLOOR
    /\ ~isTileLit(f, tile.x, tile.y, playerX, playerY)
    /\ ~Nearer(TileDist2(tile.x, tile.y, playerX, playerY),
               getEffectiveTorchRadius(f), 100)

\* the first tile of picks that passes, as a set of at most one tile
FirstAccepted(picks, Accepted(_)) ==
    LET ok == {k \in 1 .. Len(picks) : Accepted(picks[k])}
    IN IF ok = {} THEN {}
       ELSE {picks[CHOOSE k \in ok : \A j \in ok : k <= j]}

\* a search that puts the crawler on the tile drawn last when its attempts
\* are used up
spawnSingleCrawlerAnyway(c, f, m, playerX, playerY, picks) ==
    LET first == FirstAccepted(picks,
                    LAMBDA t : crawlerTileAccepted(c, f, m, playerX, playerY, t))
        tile == IF first = {} THEN picks[Len(picks)] ELSE CHOOSE t \in first : TRUE
    IN createCrawler(c, tileToWorld(tile.x), tileToWorld(tile.y))

\* spawnSingleCrawler(playerX, playerY, fogOfWar): picks are the tiles its
\* attempts draw, one after the other; the attempts after the last of picks
\* draw rejected tiles again
spawnSingleCrawler(c, f, m, playerX, playerY, picks) ==
    LET first == FirstAccepted(picks,
                    LAMBDA t : crawlerTileAccepted(c, f, m, playerX, playerY, t))
    IN IF first = {} THEN c
       ELSE LET tile == CHOOSE t \in first : TRUE
            IN createCrawler(c, tileToWorld(tile.x), tileToWorld(tile.y))

\* spawnSpecialCreature(type, playerX, playerY, fogOfWar)
spawnSpecialCreature(c, type, f, m, playerX, playerY, picks, draw) ==
    LET first == FirstAccepted(picks,
                    LAMBDA t : specialTileAccepted(f, m, playerX, playerY, t))
    IN IF first = {} THEN c
       ELSE LET tile == CHOOSE t \in first : TRUE
            IN IF type = "spitter"
               THEN createSpitter(c, tileToWorld(tile.x), tileToWorld(tile.y), draw)
               ELSE createBroodMother(c, tileToWorld(tile.x), tileToWorld(tile.y), draw)

\* while (spawnAccumulator >= 1) { spawnAccumulator -= 1; spawnSingleCrawler }
RECURSIVE spawnCrawlers(_, _, _, _, _, _)
spawnCrawlers(c, f, m, playerX, playerY, picks) ==
    IF c.spawnAccumulator < SpawnOne THEN c
    ELSE spawnCrawlers(
            spawnSingleCrawler([c EXCEPT !.spawnAccumulator = @ - SpawnOne],
                               f, m, playerX, playerY, picks),
            f, m, playerX, playerY, picks)

\* if (currentLevel >= SPITTER_START_LEVEL): a spitter every 10 seconds
spawnSpitters(c, f, m, playerX, playerY, rnd) ==
    IF c.currentLevel < SPITTER_START_LEVEL THEN c
    ELSE IF c.spitterSpawnAccumulator + 2 >= SpawnOne
    THEN spawnSpecialCreature([c EXCEPT !.spitterSpawnAccumulator = @ + 2 - SpawnOne],
                              "spitter", f, m, playerX, playerY,
                              rnd.spitterPicks, rnd.draw)
    ELSE [c EXCEPT !.spitterSpawnAccumulator = @ + 2]

\* if (currentLevel >= BROODMOTHER_START_LEVEL): a brood mother every 20 seconds
spawnBroodMothers(c, f, m, playerX, playerY, rnd) ==
    IF c.currentLevel < BROODMOTHER_START_LEVEL THEN c
    ELSE IF c.broodmotherSpawnAccumulator + 1 >= SpawnOne
    THEN spawnSpecialCreature([c EXCEPT !.broodmotherSpawnAccumulator = @ + 1 - SpawnOne],
                              "broodmother", f, m, playerX, playerY,
                              rnd.broodPicks, rnd.draw)
    ELSE [c EXCEPT !.broodmotherSpawnAccumulator = @ + 1]

\* the spawning of update() past its guard: crawlers, then spitters from
\* level 3, then brood mothers from level 5
spawnAll(c, f, m, playerX, playerY, rnd) ==
    spawnBroodMothers(
        spawnSpitters(
            spawnCrawlers([c EXCEPT !.spawnAccumulator = @ + 2 * c.spawnRate],
                          f, m, playerX, playerY, rnd.crawlerPicks),
            f, m, playerX, playerY, rnd),
        f, m, playerX, playerY, rnd)

\* isWalkable(x, y, radius): the four corners of the square on floor tiles
isWalkable(m, x, y, radius) ==
    \A cx \in {x - radius, x + radius} : \A cy \in {y - radius, y + radius} :
        LET tx == worldToTile(cx)
            ty == worldToTile(cy)
        IN /\ tx >= 0 /\ tx < m.width /\ ty >= 0 /\ ty < m.height
           /\ TileAt(m, tx, ty) = FLOOR

\* updateCrawler, with no attraction point set: the crawler steps speed * dt
\* toward the player, or along the direction `dir` that Math.random() has
\* drawn when the player is invisible, each axis on its own unless a wall is
\* in the way; the step is rounded to the position grid.  The result is the
\* crawler and the damage it does, in sixtieths of a point.
updateCrawler(crawler, m, playerX, playerY, invisible, dir) ==
    LET dx == playerX - crawler.x
        dy == playerY - crawler.y
        d2 == Sq(dx) + Sq(dy)
        dist == Isqrt(d2)
        perSecond == (MultScale * UPDATES_PER_SECOND) \div PosScale
        den == dist * perSecond
        moveX == IF invisible THEN RoundDiv(dir.cos * crawler.speed, 1000 * perSecond)
                 ELSE IF d2 >= Sq(PosScale) THEN RoundDiv(dx * crawler.speed, den) ELSE 0
        moveY == IF invisible THEN RoundDiv(dir.sin * crawler.speed, 1000 * perSecond)
                 ELSE IF d2 >= Sq(PosScale) THEN RoundDiv(dy * crawler.speed, den) ELSE 0
        halfSize == (crawler.size \div 2) * PosScale
        newX == IF isWalkable(m, crawler.x + moveX, crawler.y, halfSize)
                THEN crawler.x + moveX ELSE crawler.x
        newY == IF isWalkable(m, newX, crawler.y + moveY, halfSize)
                THEN crawler.y + moveY ELSE crawler.y
        collisionDist == (crawler.size \div 2 + 12) * PosScale
    IN [creature |-> [crawler EXCEPT !.x = newX, !.y = newY],
        damage |-> IF /\ ~invisible
                      /\ Sq(newX - playerX) + Sq(newY - playerY) <= Sq(collisionDist)
                   THEN CRAWLER_DAMAGE_PER_SECOND ELSE 0]

\* a spitter that begins its windup whether it sees the player or not
updateSpitterBlind(c, k, m, playerX, playerY) ==
    LET spitter == c.creatures[k]
    IN IF spitter.isWindingUp
       THEN IF spitter.attackWindup - DT <= 0
            THEN [fireGoo(c, spitter) EXCEPT
                    !.creatures[k].attackWindup = @ - DT,
                    !.creatures[k].isWindingUp = FALSE,
                    !.creatures[k].attackCooldown = SPITTER_ATTACK_COOLDOWN]
            ELSE [c EXCEPT !.creatures[k].attackWindup = @ - DT]
       ELSE IF spitter.attackCooldown - DT <= 0
            THEN [c EXCEPT !.creatures[k].attackCooldown = @ - DT,
                           !.creatures[k].isWindingUp = TRUE,
                           !.creatures[k].attackWindup = SPITTER_WINDUP_TIME,
                           !.creatures[k].targetX = playerX,
                           !.creatures[k].targetY = playerY]
            ELSE [c EXCEPT !.creatures[k].attackCooldown = @ - DT]

\* updateSpitter on creature k of the list
updateSpitter(c, k, m, playerX, playerY) ==
    LET spitter == c.creatures[k]
        d2 == Sq(playerX - spitter.x) + Sq(playerY - spitter.y)
        los == hasLineOfSight(m, spitter.x, spitter.y, playerX, playerY)
    IN IF spitter.isWindingUp
       THEN IF spitter.attackWindup - DT <= 0
            THEN [fireGoo(c, spitter) EXCEPT
                    !.creatures[k].attackWindup = @ - DT,
                    !.creatures[k].isWindingUp = FALSE,
                    !.creatures[k].attackCooldown = SPITTER_ATTACK_COOLDOWN]
            ELSE [c EXCEPT !.creatures[k].attackWindup = @ - DT]
       ELSE IF /\ spitter.attackCooldown - DT <= 0
               /\ d2 <= Sq(SPITTER_RANGE * PosScale)
               /\ los
               /\ ~c.playerInvisible
            THEN [c EXCEPT !.creatures[k].attackCooldown = @ - DT,
                           !.creatures[k].isWindingUp = TRUE,
                           !.creatures[k].attackWindup = SPITTER_WINDUP_TIME,
                           !.creatures[k].targetX = playerX,
                           !.creatures[k].targetY = playerY]
            ELSE [c EXCEPT !.creatures[k].attackCooldown = @ - DT]

\* cos and sin of 2 pi i / 3, in thousandths
BroodCos(i) == IF i = 0 THEN 1000 ELSE -500
BroodSin(i) == IF i = 0 THEN 0 ELSE IF i = 1 THEN 866 ELSE -866

\* updateBroodMother, the crawlers i, i + 1, ... of one brood
RECURSIVE broodFrom(_, _, _, _)
broodFrom(c, broodMother, m, i) ==
    IF i >= broodMother.spawnCount THEN c
    ELSE LET spawnDist == (BROODMOTHER_SIZE + CRAWLER_SIZE) * PosScale
             spawnX == broodMother.x + RoundDiv(BroodCos(i) * spawnDist, 1000)
             spawnY == broodMother.y + RoundDiv(BroodSin(i) * spawnDist, 1000)
             tx == worldToTile(spawnX)
             ty == worldToTile(spawnY)
             valid == /\ tx >= 0 /\ tx < m.width /\ ty >= 0 /\ ty < m.height
                      /\ TileAt(m, tx, ty) = FLOOR
         IN broodFrom(IF valid THEN createCrawler(c, spawnX, spawnY) ELSE c,
                      broodMother, m, i + 1)

\* updateBroodMother on creature k of the list
updateBroodMother(c, k, m) ==
    LET broodMother == c.creatures[k]
    IN IF broodMother.spawnCooldown - DT <= 0
       THEN [broodFrom(c, broodMother, m, 0) EXCEPT
                !.creatures[k].spawnCooldown = BROODMOTHER_SPAWN_COOLDOWN]
       ELSE [c EXCEPT !.creatures[k].spawnCooldown = @ - DT]

\* The loop over the creatures of update().  A crawler's turn touches the
\* crawler alone, so the turns of the crawlers are taken together, then those
\* of the spitters and brood mothers in the order of the list, then those of
\* the crawlers a brood mother has added at the end of the list under the
\* loop, to which the loop comes too.

\* a creature that is frozen for the countdown of one update only
thawedAtOnce(creature) == [creature EXCEPT !.frozen = FALSE, !.frozenTime = 0]

\* The frozen timer of a creature's turn: frozenTime -= dt and the test
\* frozenTime <= 0.  A freeze lasts SHOCKWAVE_FREEZE_TIME seconds, and dt is
\* the double nearest to 1/60: after 240 countdowns the double is 9.2e-15,
\* not 0, so the timer that stands at 0 here is still positive in the code
\* and the creature thaws in the next countdown.
thawed(creature) ==
    IF ~creature.frozen THEN creature
    ELSE IF creature.frozenTime - DT < 0
    THEN [creature EXCEPT !.frozen = FALSE, !.frozenTime = 0]
    ELSE [creature EXCEPT !.frozenTime = @ - DT]

\* whether the creature acts in its turn
acts(creature) == creature.alive /\ ~thawed(creature).frozen

\* the direction Math.random() draws for the crawler at place k
wanderOf(wander, k) ==
    IF wander = <<>> THEN [cos |-> 0, sin |-> 0]
    ELSE wander[((k - 1) % Len(wander)) + 1]

\* the turns of the crawlers from `from` on
crawlersTurn(c, from, m, playerX, playerY, wander) ==
    [c EXCEPT !.creatures = [k \in 1 .. Len(@) |->
        IF k < from \/ @[k].type # "crawler" \/ ~@[k].alive THEN @[k]
        ELSE IF acts(@[k])
        THEN updateCrawler(thawed(@[k]), m, playerX, playerY,
                           c.playerInvisible, wanderOf(wander, k)).creature
        ELSE thawed(@[k])]]

\* the damage of those turns
crawlersDamage(c, from, m, playerX, playerY, wander) ==
    CRAWLER_DAMAGE_PER_SECOND * Cardinality(
        {k \in from .. Len(c.creatures) :
            /\ c.creatures[k].type = "crawler" /\ acts(c.creatures[k])
            /\ updateCrawler(thawed(c.creatures[k]), m, playerX, playerY,
                             c.playerInvisible, wanderOf(wander, k)).damage > 0})

\* the places in the list of the spitters and brood mothers, in order
specialPlaces(c) ==
    LET S == {k \in 1 .. Len(c.creatures) : c.creatures[k].type # "crawler"}
    IN [i \in 1 .. Cardinality(S) |->
          CHOOSE k \in S : Cardinality({j \in S : j <= k}) = i]

\* the turns of the spitters and brood mothers at places[i], places[i + 1], ...
RECURSIVE specialsTurn(_, _, _, _, _, _)
specialsTurn(c, places, i, m, playerX, playerY) ==
    IF i > Len(places) THEN c
    ELSE LET k == places[i]
             creature == c.creatures[k]
             c1 == [c EXCEPT !.creatures[k] = thawed(creature)]
         IN specialsTurn(
               IF ~acts(creature) THEN c1
               ELSE IF creature.type = "spitter"
               THEN updateSpitter(c1, k, m, playerX, playerY)
               ELSE updateBroodMother(c1, k, m),
               places, i + 1, m, playerX, playerY)

\* the loop: the manager afterwards and the damage to the player
updateAllCreatures(c, m, playerX, playerY, wander) ==
    With(crawlersTurn(c, 1, m, playerX, playerY, wander), LAMBDA c1 :
    With(specialsTurn(c1, specialPlaces(c1), 1, m, playerX, playerY), LAMBDA c2 :
        [cm |-> crawlersTurn(c2, Len(c.creatures) + 1, m, playerX, playerY, wander),
         damage |-> crawlersDamage(c, 1, m, playerX, playerY, wander)
                      + crawlersDamage(c2, Len(c.creatures) + 1, m, playerX, playerY,
                                       wander)]))

\* getAliveCount(): dead creatures leave the list when they die
getAliveCount(c) == Len(c.creatures)

\* the guard of the spawning, tested once in an update
spawningOpen(c) == c.spawningEnabled /\ getAliveCount(c) < c.maxCreaturesAlive

\* CreatureManager.update(dt, playerX, playerY, fogOfWar): the goo and the
\* root timer, the spawning, the creatures.  rnd holds what Math.random()
\* decides.  The result holds the manager, the damage to the player, the
\* roots that came onto the player and the creatures the spawning created.
cmUpdate(c, f, m, playerX, playerY, rnd) ==
    With(updateGoo(c, playerX, playerY), LAMBDA g :
    With(IF spawningOpen(g.cm)
         THEN spawnAll(g.cm, f, m, playerX, playerY, rnd)
         ELSE g.cm, LAMBDA c2 :
    With(updateAllCreatures(c2, m, playerX, playerY, rnd.wander), LAMBDA st :
        [cm |-> st.cm, damage |-> st.damage, roots |-> g.roots,
         spawned |-> SubSeq(c2.creatures, Len(g.cm.creatures) + 1,
                            Len(c2.creatures))])))

(***************************************************************************)
(* Game: the orchestrator                                                  *)
(***************************************************************************)
PLAYER_ACCELERATION == 1200
PLAYER_FRICTION == 800
PLAYER_SIZE == 24
POINTS_PER_KILL == 10
\* playerHP, levelDamageTaken and the damage of an update are kept in
\* sixtieths of a point: a crawler does CRAWLER_DAMAGE_PER_SECOND * dt
HpScale == UPDATES_PER_SECOND

\* The methods Game.update calls, in the order of its text, when the game
\* is neither on the title screen, nor over, nor in the shop.  "levelTimer"
\* is the code at the head of the list: levelTime += dt and the horde
\* trigger.
UpdateOrder ==
    <<"levelTimer", "updateTeleporting", "updateShockwave", "updatePlayer",
      "updateCamera", "handleInput", "updateFogOfWar", "updateCreatures",
      "updateCombat", "updatePowerUps", "updatePoints",
      "updateLanternAndFlareVisuals", "updateExitBeacon", "checkExitDiscovery",
      "checkWinCondition", "updateMinimap", "updateHUD", "updateDamageFlash",
      "updatePlayerFloatingTexts", "updatePendingBonuses">>

\* The methods that change nothing of the state kept here: they draw.
DrawingSteps ==
    {"updateCamera", "updateLanternAndFlareVisuals", "updateExitBeacon", "checkExitDiscovery",
     "updateMinimap", "updateHUD", "updateDamageFlash",
     "updatePlayerFloatingTexts"}

\* an update that leaves out every other call
stepAfterSkipping(pc) == IF pc + 2 >= Len(UpdateOrder) THEN 0 ELSE pc + 2

\* game.pc is the number of methods of UpdateOrder the running update has
\* called; it is 0 between two updates.  The call after the last ends the
\* update.
stepAfter(pc) == IF pc + 1 = Len(UpdateOrder) THEN 0 ELSE pc + 1

\* the maze, the fog, the player, the creature manager, the combat system
\* and the fields of Game, taken together
World == [game |-> game, cm |-> cm, fog |-> fog, combat |-> combat,
          player |-> player, mz |-> mz]

\* the maze while there is none (this.maze = null)
NoMaze ==
    [width |-> 0, height |-> 0, tiles |-> {}, rooms |-> <<>>,
     pc |-> "idle", i |-> 0, startRoom |-> 0, exitRoom |-> 0]

startSpawning(c) ==
    [c EXCEPT !.spawningEnabled = TRUE, !.spawnAccumulator = 0,
              !.spitterSpawnAccumulator = 0, !.broodmotherSpawnAccumulator = 0]

stopSpawning(c) == [c EXCEPT !.spawningEnabled = FALSE]

isPlayerRooted(c) == c.playerRootedTime > 0

\* POWERUP_CONFIGS: the duration of an effect, in seconds
POWERUP_CONFIGS ==
    [ghost |-> [duration |-> 8], berserker |-> [duration |-> 10],
     shield |-> [duration |-> 6], speedboost |-> [duration |-> 10],
     doubledamage |-> [duration |-> 10]]

\* PowerUpSystem.hasEffect(type)
hasEffect(pu, type) ==
    \E i \in 1 .. Len(pu.activeEffects) : pu.activeEffects[i].type = type

\* Game.onPowerUpStart(type): the ghost effect is told to the creature
\* manager, the shield and the speed boost are asked for where they count
onPowerUpStart(w, type) ==
    IF type = "ghost"
    THEN [w EXCEPT !.cm = setPlayerInvisible(@, TRUE)]
    ELSE IF type = "berserker"
    THEN [w EXCEPT !.combat.fireRateMultiplier = w.game.fireRateMultiplier * 2]
    ELSE IF type = "doubledamage"
    THEN [w EXCEPT !.combat.damageMultiplier = w.game.damageMultiplier * 2]
    ELSE w

\* an end of an effect that leaves the combat system as it is
onPowerUpEndSilent(w, type) == w

\* Game.onPowerUpEnd(type)
onPowerUpEnd(w, type) ==
    IF type = "ghost"
    THEN [w EXCEPT !.cm = setPlayerInvisible(@, FALSE)]
    ELSE IF type = "berserker"
    THEN [w EXCEPT !.combat.fireRateMultiplier = w.game.fireRateMultiplier]
    ELSE IF type = "doubledamage"
    THEN [w EXCEPT !.combat.damageMultiplier = w.game.damageMultiplier]
    ELSE w

\* onEffectEnd for the effects from place i on, in the order of the list
RECURSIVE endEffects(_, _, _)
endEffects(w, effects, i) ==
    IF i > Len(effects) THEN w
    ELSE endEffects(onPowerUpEnd(w, effects[i].type), effects, i + 1)

\* PowerUpSystem.clearPowerUp()
clearPowerUp(w) == [w EXCEPT !.game.powerUpSystem.spawnedPowerUp = NoPowerUp]

\* PowerUpSystem.clearAllEffects()
clearAllEffects(w) ==
    [endEffects(w, w.game.powerUpSystem.activeEffects, 1) EXCEPT
        !.game.powerUpSystem.activeEffects = <<>>]

\* the tile is one spawnRandomPowerUp() accepts: floor, in neither the start
\* room nor the exit room
inRoom(room, tileX, tileY) ==
    /\ tileX >= room.x /\ tileX < room.x + room.width
    /\ tileY >= room.y /\ tileY < room.y + room.height

powerUpTileAccepted(m, tileX, tileY) ==
    /\ tileX \in 0 .. m.width - 1 /\ tileY \in 0 .. m.height - 1
    /\ TileAt(m, tileX, tileY) = FLOOR
    /\ ~inRoom(m.rooms[m.startRoom], tileX, tileY)
    /\ ~inRoom(m.rooms[m.exitRoom], tileX, tileY)

\* PowerUpSystem.spawnRandomPowerUp(): draw holds the type and the tile
\* Math.random() decides, or NoPowerUp when 100 attempts found no tile
spawnRandomPowerUp(w, draw) ==
    [w EXCEPT !.game.powerUpSystem.spawnedPowerUp =
        IF draw.type = "none" THEN NoPowerUp
        ELSE [type |-> draw.type, x |-> tileToWorld(draw.tileX),
              y |-> tileToWorld(draw.tileY)]]

\* PowerUpSystem.pickupPowerUp(type): an effect that is active is refreshed
pickupPowerUp(w, type) ==
    LET effects == w.game.powerUpSystem.activeEffects
        duration == POWERUP_CONFIGS[type].duration * 1000 * MsScale
    IN IF hasEffect(w.game.powerUpSystem, type)
       THEN [w EXCEPT !.game.powerUpSystem.activeEffects =
                [i \in 1 .. Len(effects) |->
                    IF effects[i].type = type
                    THEN [effects[i] EXCEPT !.remainingTime = duration]
                    ELSE effects[i]]]
       ELSE onPowerUpStart(
                [w EXCEPT !.game.powerUpSystem.activeEffects =
                    Append(@, [type |-> type, remainingTime |-> duration])],
                type)

\* PowerUpSystem.update(dt, playerX, playerY, isLit): the pickup within 30
\* units, then the countdown of the effects and the end of those that ran out
powerUpNear(w) ==
    LET sp == w.game.powerUpSystem.spawnedPowerUp
    IN /\ sp.type # "none"
       /\ Sq(w.player.x - sp.x) + Sq(w.player.y - sp.y) < Sq(30 * PosScale)

countedDown(effects) ==
    [i \in 1 .. Len(effects) |-> [effects[i] EXCEPT !.remainingTime = @ - DT]]

powerUpSystemUpdate(w) ==
    With(IF powerUpNear(w)
         THEN clearPowerUp(pickupPowerUp(w, w.game.powerUpSystem.spawnedPowerUp.type))
         ELSE w, LAMBDA w1 :
    With(countedDown(w1.game.powerUpSystem.activeEffects), LAMBDA counted :
        [endEffects(w1, SelectSeq(counted, LAMBDA e : e.remainingTime <= 0), 1)
            EXCEPT !.game.powerUpSystem.activeEffects =
                       SelectSeq(counted, LAMBDA e : e.remainingTime > 0)]))

\* Game.updatePowerUps(dt)
updatePowerUps(w) == powerUpSystemUpdate(w)

\* Game.startLevel(level); maze is what generator.generate() returns, draw
\* the power-up spawnRandomPowerUp() puts into it
startLevel(w, level, maze, draw) ==
    LET w1 == [game |-> [gameStartLevel(w.game, level) EXCEPT
                            !.levelStartGracePeriod = 1000 * MsScale,
                            !.levelDamageTaken = 0,
                            !.isTeleporting = FALSE, !.teleportProgress = 0,
                            !.shockwaveActive = FALSE, !.shockwaveProgress = 0,
                            !.playerVelX = 0, !.playerVelY = 0],
               mz |-> maze,
               fog |-> NewFogOfWar(maze.width, maze.height, w.game.torchMultiplier),
               cm |-> startSpawning(cmStartLevel(w.cm, level)),
               combat |-> [w.combat EXCEPT !.bullets = <<>>,
                              !.damageMultiplier = w.game.damageMultiplier],
               player |-> [x |-> tileToWorld(maze.rooms[maze.startRoom].centerX),
                           y |-> tileToWorld(maze.rooms[maze.startRoom].centerY)]]
    IN With(clearAllEffects(clearPowerUp(w1)), LAMBDA w2 :
            IF level >= 3 THEN spawnRandomPowerUp(w2, draw) ELSE w2)

\* what startNewGame and restartGame both set before they start level 1
resetRun(w) ==
    [w EXCEPT !.game.gameOver = FALSE, !.game.currentLevel = 0,
              !.game.points = 0, !.game.cumulativePoints = 0,
              !.game.lastKillCount = 0,
              !.game.playerHP = PLAYER_MAX_HP * HpScale,
              !.game.playerMaxHP = PLAYER_MAX_HP * HpScale,
              !.game.damageMultiplier = MultScale,
              !.game.fireRateMultiplier = MultScale,
              !.game.speedMultiplier = MultScale,
              !.game.torchMultiplier = 10,
              !.game.lanternCount = 2, !.game.flareCount = 1,
              !.game.teleporterCount = 0, !.game.shockwaveCount = 0,
              !.game.isTeleporting = FALSE, !.game.teleportProgress = 0,
              !.game.shockwaveActive = FALSE, !.game.shockwaveProgress = 0,
              !.game.inShop = FALSE, !.game.pendingBonuses = <<>>,
              !.game.shop = NewShop,
              !.combat.killCount = 0, !.combat.ownedWeapons = {"pistol"},
              !.combat.damageMultiplier = MultScale,
              !.combat.fireRateMultiplier = MultScale,
              !.combat.hasScythe = FALSE]

\* the power-up of a level below 3, where none is drawn
NoDraw == [type |-> "none", tileX |-> 0, tileY |-> 0]

\* Game.startNewGame()
startNewGame(w, maze) ==
    startLevel([resetRun(w) EXCEPT !.game.onTitleScreen = FALSE,
                                   !.game.totalTime = 0,
                                   !.game.levelTime = 0,
                                   !.game.hordeTriggeredThisLevel = FALSE],
               1, maze, NoDraw)

\* Game.restartGame()
restartGame(w, maze) == startLevel(resetRun(w), 1, maze, NoDraw)

\* Game.goToMainMenu(): the systems and the maze are let go; the ends of
\* the effects find no combat system
goToMainMenu(w) ==
    [clearAllEffects(w) EXCEPT
        !.game.gameOver = FALSE, !.game.onTitleScreen = TRUE,
        !.game.pendingBonuses = <<>>,
        !.cm = NewCreatureManager, !.fog = NewFogOfWar(0, 0, 10),
        !.combat = NewCombatSystem, !.mz = NoMaze]

\* levelTime >= parTime on the doubles of the code.  The level time is the
\* sum of n steps of 1/60 s; for every par time of the game (25 to 54 s) the
\* sum of 60 x parTime steps comes out just below parTime, so that the test
\* holds first one update later
parReached(levelTime, parTime) == levelTime > parTime * 1000 * MsScale

\* Math.floor((parTime - levelTime) * 2) on the doubles of the code.  The sum
\* of n steps of 1/60 s comes out above n/60 for n = 540, 570, ..., 1350,
\* where the exact product is a whole number and the double is just below it
earlyBonus(levelTime, parTime) ==
    LET exact == (2 * (parTime * 1000 * MsScale - levelTime)) \div (1000 * MsScale)
        n == levelTime \div DT
    IN IF n % (UPDATES_PER_SECOND \div 2) = 0
          /\ n >= 9 * UPDATES_PER_SECOND /\ n <= 45 * (UPDATES_PER_SECOND \div 2)
       THEN exact - 1 ELSE exact

\* the end of a level in openShop and in completeLevel: the spawning
\* stops, the level time goes to the total, the map size is paid, and the
\* bonuses of the level are kept for later
levelAwards(w) ==
    LET g == w.game
        mapSize == getMapSize(g.currentLevel)
        early == IF ~parReached(g.levelTime, g.parTime)
                 THEN <<[amount |-> earlyBonus(g.levelTime, g.parTime),
                         label |-> "BUZZER BEATER", delay |-> 500 * MsScale]>>
                 ELSE <<>>
        unscathed == IF g.levelDamageTaken = 0
                     THEN <<[amount |-> 50 + g.currentLevel * 10,
                             label |-> "UNSCATHED", delay |-> 1000 * MsScale]>>
                     ELSE <<>>
    IN [w EXCEPT !.cm = stopSpawning(@),
                 !.game.totalTime = @ + g.levelTime,
                 !.game.points = @ + mapSize,
                 !.game.cumulativePoints = @ + mapSize,
                 !.game.pendingBonuses = @ \o early \o unscathed]

\* the upgrades of the shop: the cost, and the number of purchases where
\* there is a most
ShopUpgrades ==
    [rifle |-> [cost |-> 500, maxPurchases |-> 1],
     shotgun |-> [cost |-> 400, maxPurchases |-> 1],
     gatling |-> [cost |-> 1000, maxPurchases |-> 1],
     scythe |-> [cost |-> 800, maxPurchases |-> 1],
     firerate |-> [cost |-> 350, maxPurchases |-> 5],
     bulletdamage |-> [cost |-> 300, maxPurchases |-> 5],
     maxhp |-> [cost |-> 200, maxPurchases |-> 5],
     speed |-> [cost |-> 250, maxPurchases |-> 4],
     torch |-> [cost |-> 150, maxPurchases |-> 4],
     healthpack |-> [cost |-> 100],
     lantern |-> [cost |-> 300],
     flare |-> [cost |-> 250],
     teleporter |-> [cost |-> 200],
     shockwave |-> [cost |-> 400]]

\* the slot of the upgrade takes a click (`available` in drawItemsRowCentered)
available(g, id) ==
    /\ g.points >= ShopUpgrades[id].cost
    /\ "maxPurchases" \in DOMAIN ShopUpgrades[id]
           => g.shop[id] < ShopUpgrades[id].maxPurchases
    /\ id = "healthpack" => g.playerHP < g.playerMaxHP

\* the switch of Game.handlePurchase(upgrade), after the payment
upgradeApplied(w, id) ==
    LET g == w.game
        cost == ShopUpgrades[id].cost
    IN CASE id \in {"rifle", "shotgun", "gatling"} -> [w EXCEPT !.combat = addWeapon(@, id)]
         [] id = "scythe" -> [w EXCEPT !.combat.hasScythe = TRUE]
         [] id = "firerate" ->
                [w EXCEPT !.game.fireRateMultiplier = @ + 200,
                          !.combat.fireRateMultiplier = g.fireRateMultiplier + 200]
         [] id = "bulletdamage" ->
                [w EXCEPT !.game.damageMultiplier = @ + 150,
                          !.combat.damageMultiplier = g.damageMultiplier + 150]
         [] id = "maxhp" ->
                [w EXCEPT !.game.playerMaxHP = @ + 25 * HpScale,
                          !.game.playerHP = @ + 25 * HpScale]
         [] id = "speed" -> [w EXCEPT !.game.speedMultiplier = @ + 150]
         [] id = "torch" ->
                [w EXCEPT !.game.torchMultiplier = @ + 3,
                          !.fog.torchRadiusMultiplier = g.torchMultiplier + 3]
         [] id = "healthpack" ->
                [w EXCEPT !.game.playerHP = Min(@ + 30 * HpScale, g.playerMaxHP)]
         [] id = "lantern" ->
                IF g.lanternCount < 2 THEN [w EXCEPT !.game.lanternCount = @ + 1]
                ELSE [w EXCEPT !.game.points = @ + cost]
         [] id = "flare" ->
                IF g.flareCount < 1 THEN [w EXCEPT !.game.flareCount = @ + 1]
                ELSE [w EXCEPT !.game.points = @ + cost]
         [] id = "teleporter" -> [w EXCEPT !.game.teleporterCount = @ + 1]
         [] id = "shockwave" ->
                IF g.shockwaveCount < 3 THEN [w EXCEPT !.game.shockwaveCount = @ + 1]
                ELSE [w EXCEPT !.game.points = @ + cost]

\* Game.handlePurchase(upgrade)
handlePurchase(w, id) ==
    IF w.game.points < ShopUpgrades[id].cost THEN w
    ELSE upgradeApplied([w EXCEPT !.game.points = @ - ShopUpgrades[id].cost], id)

\* Shop.purchaseUpgrade(upgrade): the count of the shop, then the callback
purchaseUpgrade(w, id) == handlePurchase([w EXCEPT !.game.shop[id] = @ + 1], id)

\* Game.openShop()
openShop(w) ==
    IF w.game.inShop THEN w
    ELSE levelAwards([w EXCEPT !.game.inShop = TRUE])

\* Game.closeShop()
closeShop(w, maze, draw) ==
    IF ~w.game.inShop THEN w
    ELSE startLevel([w EXCEPT !.game.inShop = FALSE],
                    w.game.currentLevel + 1, maze, draw)

\* a level completed without the start of the next
completeLevelOnly(w, maze, draw) == levelAwards(w)

\* Game.completeLevel()
completeLevel(w, maze, draw) ==
    startLevel(levelAwards(w), w.game.currentLevel + 1, maze, draw)

\* the head of the list: levelTime += dt, and the horde rush once the par
\* time is over
levelTimer(w) ==
    LET t == w.game.levelTime + DT
    IN IF ~w.game.hordeTriggeredThisLevel /\ parReached(t, w.game.parTime)
       THEN [w EXCEPT !.game.levelTime = t,
                      !.game.hordeTriggeredThisLevel = TRUE,
                      !.cm = triggerHordeRush(@)]
       ELSE [w EXCEPT !.game.levelTime = t]

\* v * (a / b), for the scaling of a velocity
Scaled(v, a, b) == RoundDiv(v * a, b)

\* InputManager.getMovementVector(): the keys of both axes make a vector of
\* length 1, in thousandths
getMovementVector(keys) ==
    IF keys.x # 0 /\ keys.y # 0
    THEN [x |-> keys.x * 707, y |-> keys.y * 707]
    ELSE [x |-> keys.x * MultScale, y |-> keys.y * MultScale]

\* Game.updatePlayer(dt): movement holds the movement keys of the two
\* axes.  Velocities are in scaled units per second.
updatePlayer(w, movement) ==
    IF w.game.isTeleporting \/ isPlayerRooted(w.cm)
    THEN [w EXCEPT !.game.playerVelX = 0, !.game.playerVelY = 0]
    ELSE LET g == w.game
             speedBoostMultiplier ==
                 IF hasEffect(g.powerUpSystem, "speedboost") THEN 2 ELSE 1
             effectiveSpeed ==
                 (PLAYER_SPEED * PosScale * g.speedMultiplier * speedBoostMultiplier)
                     \div MultScale
             accel == (PLAYER_ACCELERATION * PosScale) \div UPDATES_PER_SECOND
             frictionAmount == (PLAYER_FRICTION * PosScale) \div UPDATES_PER_SECOND
             speed0 == Isqrt(Sq(g.playerVelX) + Sq(g.playerVelY))
             moving == movement.x # 0 \/ movement.y # 0
             vector == getMovementVector(movement)
             vx1 == IF moving THEN g.playerVelX + RoundDiv(vector.x * accel, MultScale)
                    ELSE IF speed0 = 0 THEN g.playerVelX
                    ELSE IF frictionAmount >= speed0 THEN 0
                    ELSE Scaled(g.playerVelX, speed0 - frictionAmount, speed0)
             vy1 == IF moving THEN g.playerVelY + RoundDiv(vector.y * accel, MultScale)
                    ELSE IF speed0 = 0 THEN g.playerVelY
                    ELSE IF frictionAmount >= speed0 THEN 0
                    ELSE Scaled(g.playerVelY, speed0 - frictionAmount, speed0)
             fast == Sq(vx1) + Sq(vy1) > Sq(effectiveSpeed)
             speed1 == Isqrt(Sq(vx1) + Sq(vy1))
             vx2 == IF fast THEN Scaled(vx1, effectiveSpeed, speed1) ELSE vx1
             vy2 == IF fast THEN Scaled(vy1, effectiveSpeed, speed1) ELSE vy1
             halfSize == (PLAYER_SIZE \div 2) * PosScale
             tryX == w.player.x + RoundDiv(vx2, UPDATES_PER_SECOND)
             okX == isWalkable(w.mz, tryX, w.player.y, halfSize)
             newX == IF okX THEN tryX ELSE w.player.x
             tryY == w.player.y + RoundDiv(vy2, UPDATES_PER_SECOND)
             okY == isWalkable(w.mz, newX, tryY, halfSize)
         IN [w EXCEPT !.game.playerVelX = IF okX THEN vx2 ELSE 0,
                      !.game.playerVelY = IF okY THEN vy2 ELSE 0,
                      !.player = [x |-> newX,
                                  y |-> IF okY THEN tryY ELSE w.player.y]]

\* Game.handleInput(): KeyE places a lantern, KeyF throws a flare at the
\* mouse, while there are some left
SHOCKWAVE_DURATION == 500 * MsScale
SHOCKWAVE_FREEZE_TIME == 4
SHOCKWAVE_RADIUS == 300

\* CreatureManager.freezeEnemiesInRadius(x, y, radius, duration)
freezeEnemiesInRadius(c, x, y, radius, duration) ==
    [c EXCEPT !.creatures =
        [k \in 1 .. Len(c.creatures) |->
            IF /\ c.creatures[k].alive
               /\ Sq(c.creatures[k].x - x) + Sq(c.creatures[k].y - y) <= Sq(radius)
            THEN [c.creatures[k] EXCEPT !.frozen = TRUE, !.frozenTime = duration]
            ELSE c.creatures[k]]]

\* Game.startTeleporting()
startTeleporting(w) ==
    [w EXCEPT !.game.isTeleporting = TRUE, !.game.teleportProgress = 0,
              !.game.teleporterCount = @ - 1]

\* Game.activateShockwave()
activateShockwave(w) ==
    [w EXCEPT !.game.shockwaveActive = TRUE, !.game.shockwaveProgress = 0,
              !.game.shockwaveCount = @ - 1,
              !.cm = freezeEnemiesInRadius(@, w.player.x, w.player.y,
                         SHOCKWAVE_RADIUS * PosScale,
                         SHOCKWAVE_FREEZE_TIME * 1000 * MsScale)]

\* the keys of handleInput that use up what there is none of
handleInputUnchecked(w, keys) ==
    With(IF keys.KeyE
         THEN [w EXCEPT !.fog = placeLantern(@, w.player.x, w.player.y),
                        !.game.lanternCount = @ - 1]
         ELSE w, LAMBDA w1 :
    With(IF keys.KeyF
         THEN [w1 EXCEPT !.fog = launchFlare(@, w.player.x, w.player.y, keys.mouse),
                         !.game.flareCount = @ - 1]
         ELSE w1, LAMBDA w2 :
    With(IF keys.Digit4 /\ ~w2.game.isTeleporting
         THEN startTeleporting(w2) ELSE w2, LAMBDA w3 :
        IF keys.Digit5 /\ ~w3.game.shockwaveActive
        THEN activateShockwave(w3) ELSE w3)))

\* Game.handleInput(): KeyE places a lantern, KeyF throws a flare at the
\* mouse, Digit4 starts a teleport, Digit5 sets off a shockwave, each while
\* there are some left
handleInput(w, keys) ==
    With(IF keys.KeyE /\ w.game.lanternCount > 0
         THEN [w EXCEPT !.fog = placeLantern(@, w.player.x, w.player.y),
                        !.game.lanternCount = @ - 1]
         ELSE w, LAMBDA w1 :
    With(IF keys.KeyF /\ w1.game.flareCount > 0
         THEN [w1 EXCEPT !.fog = launchFlare(@, w.player.x, w.player.y, keys.mouse),
                         !.game.flareCount = @ - 1]
         ELSE w1, LAMBDA w2 :
    With(IF keys.Digit4 /\ w2.game.teleporterCount > 0 /\ ~w2.game.isTeleporting
         THEN startTeleporting(w2) ELSE w2, LAMBDA w3 :
        IF keys.Digit5 /\ w3.game.shockwaveCount > 0 /\ ~w3.game.shockwaveActive
        THEN activateShockwave(w3) ELSE w3)))

\* Game.teleportToRandomLocation(): draw holds the tile Math.random()
\* decides, or no tile when 100 attempts found none
teleportToRandomLocation(w, draw) ==
    IF draw.type = "none" THEN w
    ELSE [w EXCEPT !.player = [x |-> tileToWorld(draw.tileX),
                               y |-> tileToWorld(draw.tileY)],
                   !.game.playerVelX = 0, !.game.playerVelY = 0]

\* Game.updateTeleporting(dt): the channel takes 2 seconds
updateTeleporting(w, draw) ==
    IF ~w.game.isTeleporting THEN w
    ELSE IF w.game.teleportProgress + DT >= 2000 * MsScale
    THEN [teleportToRandomLocation(w, draw) EXCEPT
             !.game.isTeleporting = FALSE, !.game.teleportProgress = 0]
    ELSE [w EXCEPT !.game.teleportProgress = @ + DT]

\* Game.updateShockwave(dt)
updateShockwave(w) ==
    IF ~w.game.shockwaveActive THEN w
    ELSE IF w.game.shockwaveProgress + DT >= SHOCKWAVE_DURATION
    THEN [w EXCEPT !.game.shockwaveActive = FALSE, !.game.shockwaveProgress = 0]
    ELSE [w EXCEPT !.game.shockwaveProgress = @ + DT]

\* Game.updateFogOfWar(dt): fogOfWar.update; no light source attracts
updateFogOfWar(w) == [w EXCEPT !.fog = update(@, w.player.x, w.player.y)]

\* a death that raises the flag of the title screen
takeDamageToTitle(w, damage) ==
    IF damage <= 0 THEN w
    ELSE With(IF hasEffect(w.game.powerUpSystem, "shield") THEN w
              ELSE [w EXCEPT !.game.playerHP = @ - damage,
                             !.game.levelDamageTaken = @ + damage],
              LAMBDA w1 :
                  IF w1.game.playerHP <= 0
                  THEN [w1 EXCEPT !.game.playerHP = 0,
                                  !.game.onTitleScreen = TRUE,
                                  !.cm = stopSpawning(@)]
                  ELSE w1)

\* the damage taken whether or not the shield is up
takeDamageThroughShield(w, damage) ==
    IF damage <= 0 THEN w
    ELSE With([w EXCEPT !.game.playerHP = @ - damage,
                        !.game.levelDamageTaken = @ + damage],
              LAMBDA w1 :
                  IF w1.game.playerHP <= 0
                  THEN [w1 EXCEPT !.game.playerHP = 0,
                                  !.game.gameOver = TRUE,
                                  !.cm = stopSpawning(@)]
                  ELSE w1)

\* updateCreatures, the part under `if (damage > 0)`: the damage is taken
\* unless the shield is up, and at no health left the game is over
takeDamage(w, damage) ==
    IF damage <= 0 THEN w
    ELSE With(IF hasEffect(w.game.powerUpSystem, "shield") THEN w
              ELSE [w EXCEPT !.game.playerHP = @ - damage,
                             !.game.levelDamageTaken = @ + damage],
              LAMBDA w1 :
                  IF w1.game.playerHP <= 0
                  THEN [w1 EXCEPT !.game.playerHP = 0,
                                  !.game.gameOver = TRUE,
                                  !.cm = stopSpawning(@)]
                  ELSE w1)

\* Game.updateCreatures(dt): creatureManager.update, then the damage; the
\* result holds the world and what the manager's update reports
updateCreatures(w, rnd) ==
    With(cmUpdate(w.cm, w.fog, w.mz, w.player.x, w.player.y, rnd),
         LAMBDA r : [world |-> takeDamage([w EXCEPT !.cm = r.cm], r.damage),
                     report |-> r])

\* Game.updateCombat(dt): the world afterwards and what the combat system
\* reports of its update
updateCombat(w) ==
    With(combatUpdate(w.combat, w.cm, w.fog, w.mz, w.player.x, w.player.y),
         LAMBDA r : [world |-> [w EXCEPT !.combat = r.combat, !.cm = r.cm],
                     report |-> r])

\* updatePoints that pays the kills into the points to spend only
updatePointsUnearned(w) ==
    LET newKills == w.combat.killCount - w.game.lastKillCount
    IN IF newKills > 0
       THEN [w EXCEPT !.game.points = @ + newKills * POINTS_PER_KILL,
                      !.game.lastKillCount = w.combat.killCount]
       ELSE w

\* Game.updatePoints()
updatePoints(w) ==
    LET newKills == w.combat.killCount - w.game.lastKillCount
    IN IF newKills > 0
       THEN [w EXCEPT !.game.points = @ + newKills * POINTS_PER_KILL,
                      !.game.cumulativePoints = @ + newKills * POINTS_PER_KILL,
                      !.game.lastKillCount = w.combat.killCount]
       ELSE w

\* the distance test of checkWinCondition: dist < TILE_SIZE
atExit(w) ==
    LET exitRoom == w.mz.rooms[w.mz.exitRoom]
    IN Sq(w.player.x - tileToWorld(exitRoom.centerX))
         + Sq(w.player.y - tileToWorld(exitRoom.centerY))
       < Sq(TILE_SIZE * PosScale)

\* checkWinCondition without its grace period
checkWinConditionAtOnce(w, maze, draw) ==
    IF atExit(w)
    THEN IF w.game.currentLevel % 3 = 0 THEN openShop(w)
         ELSE completeLevel(w, maze, draw)
    ELSE w

\* Game.checkWinCondition(dt)
checkWinCondition(w, maze, draw) ==
    IF w.game.levelStartGracePeriod > 0
    THEN [w EXCEPT !.game.levelStartGracePeriod = @ - DT]
    ELSE IF atExit(w)
    THEN IF w.game.currentLevel % 3 = 0 THEN openShop(w)
         ELSE completeLevel(w, maze, draw)
    ELSE w

\* bonus.delay <= 0 on the doubles of the code.  A delay comes to 0 in exact
\* arithmetic only by counting the whole of it down in steps of 1/60 s; the
\* double 0.5 - 30/60 comes out just above 0 (the early bonus waits one more
\* update), 1.0 - 60/60 comes out just below
delayOver(bonus) ==
    bonus.delay < 0 \/ (bonus.delay = 0 /\ bonus.label = "UNSCATHED")

\* the places of the bonuses that updatePendingBonuses applies
dueBonuses(pending) ==
    {i \in DOMAIN pending : delayOver([pending[i] EXCEPT !.delay = @ - DT])}

\* updatePendingBonuses, bonus i and those after it
RECURSIVE pendingFrom(_, _)
pendingFrom(g, i) ==
    IF i > Len(g.pendingBonuses) THEN g
    ELSE LET bonus == [g.pendingBonuses[i] EXCEPT !.delay = @ - DT]
         IN IF delayOver(bonus)
            THEN pendingFrom([g EXCEPT !.points = @ + bonus.amount,
                                       !.cumulativePoints = @ + bonus.amount,
                                       !.pendingBonuses = RemoveAt(@, {i})],
                             i)
            ELSE pendingFrom([g EXCEPT !.pendingBonuses[i] = bonus], i + 1)

\* Game.updatePendingBonuses(dt)
updatePendingBonuses(w) == [w EXCEPT !.game = pendingFrom(@, 1)]

\* Bounds of the game model.
\* updates made while a level is played, in a run
GameHorizonTicks == 3
\* updates of Game a long run of SpecBonus makes: past the second of play
\* after a level ends
BonusHorizonTicks == 62
\* keys pressed while a level is played, in a run
MaxInputs == 1
\* tiles drawn by the attempts of one spawn that are told apart
MaxPicks == 2

\* a maze of one room, where findStartAndExit makes the only room both the
\* start and the exit, and a maze of two rooms A and B with a corridor
OneRoomMaze(size) ==
    LET m0 == [width |-> size, height |-> size, tiles |-> {},
               rooms |-> <<CombatRoomA>>,
               pc |-> "done", i |-> 0, startRoom |-> 1, exitRoom |-> 1]
    IN [m0 EXCEPT !.tiles = carveRoom(m0, CombatRoomA)]

TwoRoomMaze(size) ==
    LET m0 == [width |-> size, height |-> size, tiles |-> {},
               rooms |-> <<CombatRoomA, CombatRoomB>>,
               pc |-> "done", i |-> 0, startRoom |-> 1, exitRoom |-> 2]
        m1 == [m0 EXCEPT !.tiles = carveRoom(m0, CombatRoomA)]
        m2 == [m1 EXCEPT !.tiles = carveRoom(m1, CombatRoomB)]
    IN carveCorridor(m2, CombatRoomA, CombatRoomB, TRUE)

\* what new MazeGenerator(mapSize, mapSize).generate() may return
LevelMazes(level) == {OneRoomMaze(getMapSize(level)), TwoRoomMaze(getMapSize(level))}

\* The power-ups the runs draw: a shield or a double damage, on the tile
\* of the corridor next to the start room; none where the maze has no tile
\* for one.  No ghost is drawn: the creatures always see the player.
PowerUpTypes == {"shield", "doubledamage"}
PowerUpTile == [tileX |-> 10, tileY |-> 6]
\* the tiles teleportToRandomLocation() draws: the same tile, or none
TeleportDraws(maze) ==
    IF powerUpTileAccepted(maze, PowerUpTile.tileX, PowerUpTile.tileY)
    THEN {[type |-> "tile", tileX |-> PowerUpTile.tileX, tileY |-> PowerUpTile.tileY]}
    ELSE {NoDraw}

PowerUpDraws(maze) ==
    IF powerUpTileAccepted(maze, PowerUpTile.tileX, PowerUpTile.tileY)
    THEN {[type |-> t, tileX |-> PowerUpTile.tileX, tileY |-> PowerUpTile.tileY] :
             t \in PowerUpTypes}
    ELSE {NoDraw}

\* the tiles the attempts of a crawler's spawn draw: a wall, the middle of
\* room A, a tile in the dark that a lantern at the player's feet lights,
\* and the corner of the room
SpawnTiles ==
    {[x |-> 0, y |-> 0], [x |-> 6, y |-> 6], [x |-> 9, y |-> 2], [x |-> 2, y |-> 2]}

\* and those drawn for a spitter or a brood mother: one near, one far
SpecialTiles == {[x |-> 3, y |-> 3], [x |-> 2, y |-> 2]}

\* the tiles drawn by the attempts of one spawn, up to MaxPicks of them
PickLists(tiles) ==
    UNION {[1 .. n -> tiles] : n \in 1 .. MaxPicks}

\* whether this update spawns a crawler, a spitter, a brood mother
crawlerDue(c) ==
    spawningOpen(c) /\ c.spawnAccumulator + 2 * c.spawnRate >= SpawnOne
spitterDue(c) ==
    /\ spawningOpen(c) /\ c.currentLevel >= SPITTER_START_LEVEL
    /\ c.spitterSpawnAccumulator + 2 >= SpawnOne
broodDue(c) ==
    /\ spawningOpen(c) /\ c.currentLevel >= BROODMOTHER_START_LEVEL
    /\ c.broodmotherSpawnAccumulator + 1 >= SpawnOne

\* directions a crawler that does not see the player may take: cos and sin
\* of the angle drawn, in thousandths
WanderDirs ==
    {[cos |-> 1000, sin |-> 0], [cos |-> -707, sin |-> 707], [cos |-> 0, sin |-> -1000]}
\* draws of a direction in an update that are told apart
WanderDraws == 1

\* what Math.random() may decide in an update of the creature manager
Randoms(c) ==
    [crawlerPicks : IF crawlerDue(c) THEN PickLists(SpawnTiles) ELSE {<<>>},
     spitterPicks : IF spitterDue(c) THEN PickLists(SpecialTiles) ELSE {<<>>},
     broodPicks : IF broodDue(c) THEN PickLists(SpecialTiles) ELSE {<<>>},
     draw : IF spitterDue(c) \/ broodDue(c) THEN {2, 3} ELSE {2},
     wander : IF c.playerInvisible /\ c.creatures # <<>>
              THEN [1 .. WanderDraws -> WanderDirs] ELSE {<<>>}]

\* the tiles of picks whose light an attempt asks for: those up to the
\* first accepted one that are floor tiles of the maze
AskedLit(picks, m, Accepted(_)) ==
    {picks[k] : k \in {j \in 1 .. Len(picks) :
        /\ \A i \in 1 .. j - 1 : ~Accepted(picks[i])
        /\ picks[j].x >= 0 /\ picks[j].x < m.width
        /\ picks[j].y >= 0 /\ picks[j].y < m.height
        /\ TileAt(m, picks[j].x, picks[j].y) = FLOOR}}

\* the tiles whose light the spawning of an update asks for
spawnAsked(c, f, m, playerX, playerY, rnd) ==
    AskedLit(rnd.crawlerPicks, m,
             LAMBDA t : crawlerTileAccepted(c, f, m, playerX, playerY, t))
    \cup AskedLit(rnd.spitterPicks, m,
                  LAMBDA t : specialTileAccepted(f, m, playerX, playerY, t))
    \cup AskedLit(rnd.broodPicks, m,
                  LAMBDA t : specialTileAccepted(f, m, playerX, playerY, t))

\* the movement keys and the other keys of an update: none, right, left,
\* and up with left and with right
Movements ==
    {[x |-> 0, y |-> 0], [x |-> 1, y |-> 0], [x |-> -1, y |-> 0],
     [x |-> -1, y |-> -1], [x |-> 1, y |-> -1]}
NoKeys ==
    [KeyE |-> FALSE, KeyF |-> FALSE, Digit4 |-> FALSE, Digit5 |-> FALSE,
     mouse |-> [dx |-> 0, dy |-> 0, dist |-> 0]]
KeySets ==
    {NoKeys, [NoKeys EXCEPT !.KeyE = TRUE],
     [NoKeys EXCEPT !.Digit4 = TRUE], [NoKeys EXCEPT !.Digit5 = TRUE]}
    \cup {[NoKeys EXCEPT !.KeyF = TRUE],
          [NoKeys EXCEPT !.KeyF = TRUE, !.mouse = [dx |-> 50, dy |-> 0, dist |-> 50]],
          [NoKeys EXCEPT !.KeyE = TRUE, !.KeyF = TRUE, !.Digit4 = TRUE, !.Digit5 = TRUE,
                         !.mouse = [dx |-> 50, dy |-> 0, dist |-> 50]]}

\* the keys of handleInput that are down
pressed(keys) == {k \in {"KeyE", "KeyF", "Digit4", "Digit5"} : keys[k]}

\* the state is put in place
Install(w) ==
    /\ game' = w.game
    /\ cm' = w.cm
    /\ fog' = w.fog
    /\ combat' = w.combat
    /\ player' = w.player
    /\ mz' = w.mz

\* the running update is at the call of the method `name`
AtStep(name) == game.pc > 0 /\ UpdateOrder[game.pc + 1] = name

\* the method `name` has run and left w
Called(name, w) ==
    /\ Install([w EXCEPT !.game.pc = stepAfter(game.pc)])
    /\ hist' = [hist EXCEPT !.calls = Append(@, name)]
    /\ UNCHANGED <<loop, grid>>

Playing(g) == ~g.onTitleScreen /\ ~g.gameOver /\ ~g.inShop

\* hist.since holds, for each pending bonus, the updates of play made since
\* it was queued: `since` cut or filled with 0 to the length of `pending`
waited(since, pending) ==
    [i \in DOMAIN pending |-> IF i \in DOMAIN since THEN since[i] ELSE 0]

\* startLevel(level) calls spawnRandomPowerUp() from level 3 on: hist.tries
\* counts the searches made in the run, hist.powerUpFailed tells that the
\* search of the level under way found no tile
searched(h, w, w2, draw) ==
    IF w2.game.currentLevel # w.game.currentLevel /\ w2.game.currentLevel >= 3
    THEN [h EXCEPT !.tries = @ + 1, !.powerUpFailed = (draw.type = "none")]
    ELSE IF w2.game.currentLevel < 3 THEN [h EXCEPT !.powerUpFailed = FALSE]
    ELSE h

\* the level is one for which a power-up was searched and none is there:
\* in the levels the runs begin with, none was picked up yet
searchFailed(g) == g.currentLevel >= 3 /\ g.powerUpSystem.spawnedPowerUp = NoPowerUp

\* the types whose spawn is due in this update and finds none of the tiles
\* its attempts draw accepted
spawnFailed(c, f, m, playerX, playerY, rnd) ==
    {type \in {"crawler"} :
        /\ crawlerDue(c)
        /\ FirstAccepted(rnd.crawlerPicks,
               LAMBDA t : crawlerTileAccepted(c, f, m, playerX, playerY, t)) = {}}
    \cup {type \in {"spitter"} :
        /\ spitterDue(c)
        /\ FirstAccepted(rnd.spitterPicks,
               LAMBDA t : specialTileAccepted(f, m, playerX, playerY, t)) = {}}
    \cup {type \in {"broodmother"} :
        /\ broodDue(c)
        /\ FirstAccepted(rnd.broodPicks,
               LAMBDA t : specialTileAccepted(f, m, playerX, playerY, t)) = {}}

\* the types whose spawn is due in this update
spawnDue(c) ==
    {type \in {"crawler"} : crawlerDue(c)}
    \cup {type \in {"spitter"} : spitterDue(c)}
    \cup {type \in {"broodmother"} : broodDue(c)}

\* Game.update on the title screen: Space starts a new game
TitleUpdate ==
    /\ game.pc = 0
    /\ game.onTitleScreen
    /\ \E Space \in BOOLEAN : \E maze \in LevelMazes(1) :
          Install(IF Space THEN startNewGame(World, maze) ELSE World)
    /\ hist' = [hist EXCEPT !.since = waited(@, game'.pendingBonuses)]
    /\ UNCHANGED <<loop, grid>>

\* Game.update when the game is over: Space restarts, KeyM goes to the menu
GameOverUpdate ==
    /\ game.pc = 0
    /\ ~game.onTitleScreen /\ game.gameOver
    /\ \E Space \in BOOLEAN, KeyM \in BOOLEAN : \E maze \in LevelMazes(1) :
          LET w1 == IF Space THEN restartGame(World, maze) ELSE World
          IN Install(IF KeyM THEN goToMainMenu(w1) ELSE w1)
    /\ hist' = [hist EXCEPT !.since = waited(@, game'.pendingBonuses),
                            !.powerUpFailed = FALSE]
    /\ UNCHANGED <<loop, grid>>

\* Game.update in the shop: KeyM goes to the menu, Space closes the shop
ShopUpdate ==
    /\ game.pc = 0
    /\ ~game.onTitleScreen /\ ~game.gameOver /\ game.inShop
    /\ \E Space \in BOOLEAN, KeyM \in BOOLEAN :
       \E maze \in LevelMazes(game.currentLevel + 1) :
       \E draw \in PowerUpDraws(maze) :
       \E w \in {IF KeyM THEN goToMainMenu([World EXCEPT !.game.inShop = FALSE])
                  ELSE IF Space THEN closeShop(World, maze, draw)
                  ELSE World} :
          /\ Install(w)
          /\ hist' = [searched(hist, World, w, draw) EXCEPT
                         !.since = waited(@, w.game.pendingBonuses)]
    /\ UNCHANGED <<loop, grid>>

\* the start button of the title screen: startNewGame
ClickStart ==
    /\ game.pc = 0
    /\ game.onTitleScreen
    /\ \E maze \in LevelMazes(1) : Install(startNewGame(World, maze))
    /\ hist' = [hist EXCEPT !.since = waited(@, game'.pendingBonuses)]
    /\ UNCHANGED <<loop, grid>>

\* the close button of the open shop: closeShop
ClickCloseShop ==
    /\ game.pc = 0
    /\ game.inShop
    /\ \E maze \in LevelMazes(game.currentLevel + 1) :
       \E draw \in PowerUpDraws(maze) :
       \E w \in {closeShop(World, maze, draw)} :
          /\ Install(w)
          /\ hist' = searched(hist, World, w, draw)
    /\ UNCHANGED <<loop, grid>>

\* a click on a slot of the open shop that takes one: purchaseUpgrade
ClickUpgrade ==
    /\ game.pc = 0
    /\ game.inShop
    /\ hist.inputs < MaxInputs
    /\ \E id \in UpgradeIds :
          /\ available(game, id)
          /\ Install(purchaseUpgrade(World, id))
    /\ hist' = [hist EXCEPT !.inputs = @ + 1]
    /\ UNCHANGED <<loop, grid>>

\* Game.update while a level is played, its head
UpdateLevelTimer ==
    /\ game.pc = 0
    /\ Playing(game)
    /\ hist.ticks < (IF hist.long THEN BonusHorizonTicks ELSE GameHorizonTicks)
    /\ Install([levelTimer(World) EXCEPT !.game.pc = stepAfter(game.pc)])
    /\ hist' = [hist EXCEPT !.ticks = @ + 1, !.calls = <<"levelTimer">>,
                            !.fogBefore = fog, !.playerBefore = player,
                            !.asked = {}, !.spawned = <<>>,
                            !.since = [i \in DOMAIN @ |-> @[i] + 1]]
    /\ UNCHANGED <<loop, grid>>

\* a method that draws
DrawingStep ==
    \E name \in DrawingSteps :
        /\ AtStep(name)
        /\ Called(name, World)

UpdateTeleporting ==
    /\ AtStep("updateTeleporting")
    /\ \E draw \in IF game.isTeleporting /\ game.teleportProgress + DT >= 2000 * MsScale
                   THEN TeleportDraws(mz) ELSE {NoDraw} :
          Called("updateTeleporting", updateTeleporting(World, draw))

UpdateShockwave ==
    /\ AtStep("updateShockwave")
    /\ Called("updateShockwave", updateShockwave(World))

UpdatePlayer ==
    /\ AtStep("updatePlayer")
    /\ \E movement \in Movements :
          /\ (movement.x # 0 \/ movement.y # 0) => hist.inputs < MaxInputs
          /\ Install([updatePlayer(World, movement) EXCEPT
                         !.game.pc = stepAfter(game.pc)])
          /\ hist' = [hist EXCEPT !.calls = Append(@, "updatePlayer"),
                         !.inputs = IF movement.x # 0 \/ movement.y # 0
                                    THEN @ + 1 ELSE @]
    /\ UNCHANGED <<loop, grid>>

HandleInput ==
    /\ AtStep("handleInput")
    /\ \E keys \in KeySets :
          /\ keys # NoKeys => hist.inputs < MaxInputs
          /\ Install([handleInput(World, keys) EXCEPT
                         !.game.pc = stepAfter(game.pc)])
          /\ hist' = [hist EXCEPT !.calls = Append(@, "handleInput"),
                         !.inputs = IF keys # NoKeys THEN @ + 1 ELSE @,
                         !.pressed = pressed(keys)]
    /\ UNCHANGED <<loop, grid>>

UpdateFogOfWar ==
    /\ AtStep("updateFogOfWar")
    /\ Called("updateFogOfWar", updateFogOfWar(World))

UpdateCreatures ==
    /\ AtStep("updateCreatures")
    /\ \E rnd \in Randoms(cm) :
       \E r \in {updateCreatures(World, rnd)} :
          /\ Install([r.world EXCEPT !.game.pc = stepAfter(game.pc)])
          /\ hist' = [hist EXCEPT
                         !.calls = Append(@, "updateCreatures"),
                         !.roots = r.report.roots,
                         !.damage = r.report.damage,
                         !.spawned = r.report.spawned,
                         !.asked = IF spawningOpen(cm)
                                   THEN spawnAsked(cm, fog, mz, player.x, player.y, rnd)
                                   ELSE {},
                         !.failed = spawnFailed(cm, fog, mz, player.x, player.y, rnd),
                         !.lost = @ \cup spawnFailed(cm, fog, mz, player.x, player.y, rnd),
                         !.again = @ \cup (spawnDue(cm) \cap hist.lost)]
    /\ UNCHANGED <<loop, grid>>

UpdateCombat ==
    /\ AtStep("updateCombat")
    /\ \E r \in {updateCombat(World)} :
          /\ Install([r.world EXCEPT !.game.pc = stepAfter(game.pc)])
          /\ hist' = [hist EXCEPT !.calls = Append(@, "updateCombat"),
                                  !.struck = r.report.struck]
    /\ UNCHANGED <<loop, grid>>

UpdatePowerUps ==
    /\ AtStep("updatePowerUps")
    /\ Called("updatePowerUps", updatePowerUps(World))

UpdatePoints ==
    /\ AtStep("updatePoints")
    /\ Called("updatePoints", updatePoints(World))

\* the world holds something of every kind a level can hold
Busy(w) ==
    /\ w.cm.creatures # <<>>
    /\ w.cm.gooProjectiles # <<>> /\ w.cm.gooPuddles # <<>>
    /\ w.combat.bullets # <<>>
    /\ w.cm.playerRootedTime > 0
    /\ w.game.powerUpSystem.activeEffects # <<>>
    /\ w.game.isTeleporting /\ w.game.shockwaveActive
    /\ w.fog.lanterns # <<>> /\ w.fog.flares \o w.fog.flyingFlares # <<>>
    /\ \E t \in DOMAIN w.fog.lastLitTime :
          w.fog.lastLitTime[t] # 0 /\ w.fog.permanentlyLit[t]

CheckWinCondition ==
    /\ AtStep("checkWinCondition")
    /\ \E maze \in LevelMazes(game.currentLevel + 1) :
       \E draw \in PowerUpDraws(maze) :
          /\ Install([checkWinCondition(World, maze, draw) EXCEPT
                         !.game.pc = stepAfter(game.pc)])
          /\ hist' = [searched(hist, World, checkWinCondition(World, maze, draw), draw)
                        EXCEPT !.calls = Append(@, "checkWinCondition"),
                               !.busyBefore = Busy(World),
                               !.since = waited(@, game'.pendingBonuses)]
    /\ UNCHANGED <<loop, grid>>

UpdatePendingBonuses ==
    /\ AtStep("updatePendingBonuses")
    /\ Install([updatePendingBonuses(World) EXCEPT !.game.pc = stepAfter(game.pc)])
    /\ hist' = [hist EXCEPT !.calls = Append(@, "updatePendingBonuses"),
                            !.since = RemoveAt(@, dueBonuses(game.pendingBonuses))]
    /\ UNCHANGED <<loop, grid>>

NextGame ==
    \/ TitleUpdate
    \/ GameOverUpdate
    \/ ShopUpdate
    \/ ClickStart
    \/ ClickCloseShop
    \/ ClickUpgrade
    \/ UpdateLevelTimer
    \/ DrawingStep
    \/ UpdateTeleporting
    \/ UpdateShockwave
    \/ UpdatePlayer
    \/ HandleInput
    \/ UpdateFogOfWar
    \/ UpdateCreatures
    \/ UpdateCombat
    \/ UpdatePowerUps
    \/ UpdatePoints
    \/ CheckWinCondition
    \/ UpdatePendingBonuses

\* The game before the first update: the title screen, no level yet
TitleWorld ==
    [game |-> NewGame, cm |-> NewCreatureManager, fog |-> NewFogOfWar(0, 0, 10),
     combat |-> NewCombatSystem, player |-> [x |-> 0, y |-> 0], mz |-> NoMaze]

\* updates of a level with the base spawn rate: the horde rush begins in
\* the update after number parTime * 60, ahead of the creature manager's
\* update
baseRateUpdates(level) == parTimeOf(getMapSize(level)) * UPDATES_PER_SECOND

\* the map sizes paid for the levels below `level`
RECURSIVE mapSizesBelow(_)
mapSizesBelow(level) ==
    IF level <= 1 THEN 0 ELSE getMapSize(level - 1) + mapSizesBelow(level - 1)

\* n crawlers more, in the corners of room A
crowded(c, n) ==
    LET first == Len(c.creatures)
        crawler(k) ==
            createCrawler([c EXCEPT !.nextId = @ + k - 1],
                          tileToWorld(2 + 7 * (k % 2)),
                          tileToWorld(2 + 7 * ((k \div 2) % 2))).creatures[first + 1]
    IN [c EXCEPT !.nextId = @ + n,
                 !.creatures = [k \in 1 .. first + n |->
                                   IF k <= first THEN @[k] ELSE crawler(k - first)]]

\* the updates each of the levels before the one under way took
LevelUpdates == 20 * UPDATES_PER_SECOND

\* A level under way, in a maze of one room: `updates` updates were made
\* since the level began, no creature is left of those spawned so far, and
\* the player stands `off` units beside the middle of the exit room.  When
\* hurt, the player has 8/60 of a point left and a crawler at 20 units;
\* when crowded, as many creatures are alive as may be, one of them a brood
\* mother about to spawn.
SceneWorld(sc) ==
    LET maze == OneRoomMaze(getMapSize(sc.level))
        w0 == startLevel(startNewGame(TitleWorld, maze), sc.level, maze, NoDraw)
        n == sc.updates
        base == Min(n, baseRateUpdates(sc.level))
        horde == n > baseRateUpdates(sc.level)
        c0 == IF horde THEN triggerHordeRush(w0.cm) ELSE w0.cm
        pos == [x |-> w0.player.x + sc.off * PosScale, y |-> w0.player.y]
        c1 == [c0 EXCEPT
                 !.spawnAccumulator =
                     (2 * c0.baseSpawnRate * base
                        + 12 * c0.baseSpawnRate * (n - base)) % SpawnOne,
                 !.spitterSpawnAccumulator =
                     IF sc.level >= SPITTER_START_LEVEL THEN (2 * n) % SpawnOne ELSE 0,
                 !.broodmotherSpawnAccumulator =
                     IF sc.level >= BROODMOTHER_START_LEVEL THEN n % SpawnOne ELSE 0]
        c2 == IF sc.hurt THEN createCrawler(c1, pos.x + 20 * PosScale, pos.y) ELSE c1
        c3 == IF sc.crowded
              THEN LET b == createBroodMother(c2, tileToWorld(3), tileToWorld(8), 2)
                       k == Len(b.creatures)
                   IN crowded([b EXCEPT !.creatures[k].spawnCooldown = DT],
                              b.maxCreaturesAlive - k)
              ELSE c2
        f1 == update(w0.fog, w0.player.x, w0.player.y)
    IN [w0 EXCEPT
          !.game.levelTime = n * DT,
          !.game.levelStartGracePeriod = Max(0, @ - n * DT),
          !.game.hordeTriggeredThisLevel = horde,
          !.game.totalTime = (sc.level - 1) * LevelUpdates * DT,
          !.game.points = mapSizesBelow(sc.level),
          !.game.cumulativePoints = mapSizesBelow(sc.level),
          !.game.playerHP = IF sc.hurt THEN CRAWLER_DAMAGE_PER_SECOND ELSE @,
          !.game.levelDamageTaken =
              IF sc.hurt THEN PLAYER_MAX_HP * HpScale - CRAWLER_DAMAGE_PER_SECOND ELSE 0,
          !.player = pos,
          !.cm = c3,
          !.fog = update([f1 EXCEPT !.currentTime = (n - 1) * DT], pos.x, pos.y)]

Scene(level, updates, off, hurt, crowd) ==
    [level |-> level, updates |-> updates, off |-> off, hurt |-> hurt,
     crowded |-> crowd]

\* The levels under way the runs begin with, besides the title screen: at
\* 39 and at 41 units from the exit, with the grace period over or with one
\* update of it left, hurt or not, on a level that ends in the shop or not;
\* with a spawn due in the next update, before and in the horde rush;
\* crowded; one update before the level time is the par time; at the
\* par time, at the exit; and in the horde rush of level 10, where a
\* crawler is due in the next update and in the third.
Scenes ==
    {Scene(2, 1200, 39, FALSE, FALSE), Scene(2, 1200, 41, FALSE, FALSE),
     Scene(2, 59, 39, FALSE, FALSE), Scene(3, 1200, 39, FALSE, FALSE),
     Scene(2, 1200, 39, TRUE, FALSE), Scene(2, 1200, 41, TRUE, FALSE),
     Scene(3, 1200, 39, TRUE, FALSE),
     Scene(3, 599, 41, FALSE, FALSE), Scene(3, 1992, 41, FALSE, FALSE),
     Scene(5, 1199, 41, FALSE, FALSE), Scene(5, 3000, 41, FALSE, TRUE),
     Scene(2, baseRateUpdates(2) - 1, 41, FALSE, FALSE),
     Scene(2, baseRateUpdates(2), 39, FALSE, FALSE),
     Scene(10, baseRateUpdates(10) + 17, 41, FALSE, FALSE)}

\* the upgrades `ids` bought one after the other, the points for them found
RECURSIVE bought(_, _, _)
bought(w, ids, i) ==
    IF i > Len(ids) THEN w
    ELSE bought(purchaseUpgrade([w EXCEPT !.game.points = @ + ShopUpgrades[ids[i]].cost],
                                ids[i]),
                ids, i + 1)

\* the power-ups `types` picked up one after the other, with `remaining`
\* updates left of each effect
RECURSIVE pickedUp(_, _, _, _)
pickedUp(w, types, remaining, i) ==
    IF i > Len(types) THEN w
    ELSE pickedUp([pickupPowerUp(w, types[i]) EXCEPT
                      !.game.powerUpSystem.activeEffects[i].remainingTime =
                          remaining * DT],
                  types, remaining, i + 1)

\* A level under way in the maze of two rooms, `updates` updates after it
\* began: the player stands at (x, y) and has bought `upgrades` in the shops
\* before; the power-up `spawned` lies on the tile of the corridor; the
\* effects `effects` have `remaining` updates left.  With a crawler, one
\* touches the player, who has 8/60 of a health point left.  When busy, a
\* teleport and a shockwave are under way, a lantern stands and a flare
\* flies, a bullet flies, a goo flies at the player, who is rooted in a
\* puddle.
StageWorld(st) ==
    LET maze == TwoRoomMaze(getMapSize(st.level))
        w0 == startLevel(startNewGame(TitleWorld, maze), st.level, maze,
                         [type |-> st.spawned, tileX |-> PowerUpTile.tileX,
                          tileY |-> PowerUpTile.tileY])
        pos == [x |-> st.x * PosScale, y |-> st.y * PosScale]
        w1 == pickedUp(bought(w0, st.upgrades, 1), st.effects, st.remaining, 1)
        c1 == [w1.cm EXCEPT
                 !.spawnAccumulator = (2 * @ * st.updates) % SpawnOne,
                 !.spitterSpawnAccumulator = (2 * st.updates) % SpawnOne,
                 !.broodmotherSpawnAccumulator = st.updates % SpawnOne]
        c2 == IF st.crawler THEN createCrawler(c1, pos.x + 20 * PosScale, pos.y) ELSE c1
        c3 == IF st.busy
              THEN createGooPuddle(
                       fireGoo([c2 EXCEPT !.playerRootedTime = GOO_ROOT_DURATION \div 2],
                               [x |-> pos.x - 100 * PosScale, y |-> pos.y,
                                targetX |-> pos.x, targetY |-> pos.y]),
                       pos.x, pos.y)
              ELSE c2
        f1 == update([update(w1.fog, w1.player.x, w1.player.y) EXCEPT
                         !.currentTime = (st.updates - 1) * DT], pos.x, pos.y)
        w2 == [w1 EXCEPT
                 !.game.levelTime = st.updates * DT,
                 !.game.levelStartGracePeriod = Max(0, @ - st.updates * DT),
                 !.game.totalTime = (st.level - 1) * LevelUpdates * DT,
                 !.game.points = mapSizesBelow(st.level) + st.points,
                 !.game.cumulativePoints = mapSizesBelow(st.level) + st.points,
                 !.game.playerHP = IF st.crawler THEN CRAWLER_DAMAGE_PER_SECOND ELSE @,
                 !.game.levelDamageTaken =
                     IF st.crawler
                     THEN w1.game.playerMaxHP - CRAWLER_DAMAGE_PER_SECOND ELSE 0,
                 !.player = pos,
                 !.cm = c3,
                 !.fog = f1]
    IN IF st.busy
       THEN handleInput(
                handleInput(
                    [w2 EXCEPT !.game.teleporterCount = 1, !.game.shockwaveCount = 1,
                               !.combat = shootWithWeapon(@, pos.x, pos.y,
                                              [x |-> pos.x, y |-> pos.y - 100 * PosScale],
                                              "pistol")],
                    [NoKeys EXCEPT !.KeyE = TRUE, !.Digit4 = TRUE, !.Digit5 = TRUE]),
                [NoKeys EXCEPT !.KeyF = TRUE,
                               !.mouse = [dx |-> 50, dy |-> 0, dist |-> 50]])
       ELSE w2

Stage(level, updates, x, y, spawned, upgrades, effects, remaining, crawler, busy, points) ==
    [level |-> level, updates |-> updates, x |-> x, y |-> y, spawned |-> spawned,
     upgrades |-> upgrades, effects |-> effects, remaining |-> remaining,
     crawler |-> crawler, busy |-> busy, points |-> points]

\* The levels under way in the maze of two rooms the runs begin with: one
\* update before the pickup of a double damage and of a shield, with
\* upgrades bought; two updates before the end of three effects, with a
\* crawler at the player; and at the exit with all that a level can hold,
\* when the level time is the par time.
Stages ==
    {Stage(4, 1200, 391, 260, "doubledamage", <<"bulletdamage", "firerate">>,
           <<>>, 0, FALSE, FALSE, 0),
     Stage(4, 1200, 391, 260, "shield", <<>>, <<>>, 0, TRUE, FALSE, 0),
     Stage(4, 1200, 260, 260, "none",  <<"firerate", "bulletdamage", "bulletdamage">>,
           <<"shield", "doubledamage", "berserker">>, 2, TRUE, FALSE, 0),
     Stage(4, baseRateUpdates(4), 541, 140, "none", <<"firerate">>,
           <<"shield", "doubledamage">>, 300, TRUE, TRUE, 0)}

\* The shop open after level 3, with points to spend, the effects of the
\* level still active
ShopWorld(st) == openShop(StageWorld(st))

ShopStages ==
    {Stage(3, 1200, 541, 140, "none", <<>>, <<"berserker", "doubledamage">>, 300,
           FALSE, FALSE, 400)}

\* A level where the two lanterns stand and the flare was thrown with the
\* mouse on the player: nothing is left of the lanterns, flares, teleporters
\* and shockwaves
SpentWorld(st) ==
    handleInput(
        handleInput(
            handleInput(StageWorld(st), [NoKeys EXCEPT !.KeyE = TRUE]),
            [NoKeys EXCEPT !.KeyE = TRUE]),
        [NoKeys EXCEPT !.KeyF = TRUE, !.mouse = [dx |-> 0, dy |-> 0, dist |-> 0]])

SpentStages ==
    {Stage(4, 1200, 260, 260, "none", <<>>, <<>>, 0, FALSE, FALSE, 0)}

\* A level where a shockwave has frozen a crawler that touches the player, a
\* spitter whose cooldown ends in its next turn, a spitter whose windup ends
\* in its next turn and a brood mother whose brood is due in its next turn;
\* `left` countdowns of the freeze leave its timer positive.
FrozenWorld(st, left) ==
    With(StageWorld(st), LAMBDA w :
    With(createSpitter(w.cm, w.player.x - 100 * PosScale, w.player.y, 4), LAMBDA c1 :
    With(createSpitter([c1 EXCEPT !.creatures[Len(c1.creatures)].attackCooldown = DT],
                       w.player.x, w.player.y - 100 * PosScale, 4), LAMBDA c2 :
    With(createBroodMother(
             [c2 EXCEPT !.creatures[Len(c2.creatures)].isWindingUp = TRUE,
                        !.creatures[Len(c2.creatures)].attackWindup = DT,
                        !.creatures[Len(c2.creatures)].targetX = w.player.x,
                        !.creatures[Len(c2.creatures)].targetY = w.player.y],
             w.player.x - 100 * PosScale, w.player.y - 100 * PosScale, 4), LAMBDA c3 :
        [w EXCEPT !.cm = freezeEnemiesInRadius(
                             [c3 EXCEPT !.creatures[Len(c3.creatures)].spawnCooldown = DT],
                             w.player.x, w.player.y,
                             SHOCKWAVE_RADIUS * PosScale, left * DT)]))))

\* A level where the player has the scythe and the shield, in the middle of
\* the start room and at the exit.  The crawler at
\* the player has the hit points of one cut of the blade left; a second
\* crawler, 30 units above the player, has those of one pistol bullet left,
\* and two pistol bullets are on their way to it.
KillWorld(st) ==
    With(StageWorld(st), LAMBDA w :
    With(createCrawler(w.cm, w.player.x, w.player.y - 30 * PosScale), LAMBDA c :
        [w EXCEPT
           !.cm = [c EXCEPT
                     !.creatures[1].hp = SCYTHE_DAMAGE * MultScale,
                     !.creatures[Len(c.creatures)].hp =
                         WEAPON_STATS["pistol"].damage * MultScale],
           !.combat = shootWithWeapon(
                          shootWithWeapon(@, w.player.x, w.player.y,
                              [x |-> w.player.x, y |-> w.player.y - 30 * PosScale],
                              "pistol"),
                          w.player.x, w.player.y,
                          [x |-> w.player.x, y |-> w.player.y - 30 * PosScale],
                          "pistol")]))

KillStages ==
    {Stage(4, 1200, 260, 260, "none", <<"scythe">>, <<"shield">>, 300, TRUE, FALSE, 0),
     Stage(4, 1200, 541, 140, "none", <<"scythe">>, <<"shield">>, 300, TRUE, FALSE, 0)}

\* A level where the player stands in the upper left corner of the start
\* room, the box against both walls
CornerStages ==
    {Stage(4, 1200, 92, 92, "none", <<>>, <<>>, 0, FALSE, FALSE, 0)}

\* A level where the channel of a teleport ends in the next update; when
\* rooted, a goo has hit the player half a second ago
ChannelWorld(st, rooted) ==
    With(handleInput([StageWorld(st) EXCEPT !.game.teleporterCount = 1],
                     [NoKeys EXCEPT !.Digit4 = TRUE]), LAMBDA w :
        [w EXCEPT !.game.teleportProgress = 2000 * MsScale - DT,
                  !.cm.playerRootedTime =
                      IF rooted THEN GOO_ROOT_DURATION \div 2 ELSE @])

ChannelStages ==
    {Stage(4, 1200, 260, 260, "none", <<>>, <<>>, 0, FALSE, FALSE, 0)}

\* Level 3 at the exit, with points for the shop that follows: the crawler
\* at the player takes the last of the health in the update that ends the
\* level
DyingStages ==
    {Stage(3, 1200, 541, 140, "none", <<>>, <<>>, 0, TRUE, FALSE, 400)}

\* Level 4 after 29 updates; it followed the shop of level 3, left 8.5 s
\* before the par time by an unhurt player.  The two bonuses of that level
\* were counted down once in the update that ended level 3 and once in each
\* update since; the first of them is paid in the next update.
AwardedWorld(st) ==
    [StageWorld(st) EXCEPT
        !.game.pendingBonuses =
            <<[amount |-> 17, label |-> "BUZZER BEATER",
               delay |-> 500 * MsScale - (st.updates + 1) * DT],
              [amount |-> 50 + (st.level - 1) * 10, label |-> "UNSCATHED",
               delay |-> 1000 * MsScale - (st.updates + 1) * DT]>>]

AwardedStages ==
    {Stage(4, UPDATES_PER_SECOND \div 2 - 1, 260, 260, "none", <<>>, <<>>, 0,
           FALSE, FALSE, 0)}

FrozenStages ==
    {Stage(4, 1200, 260, 260, "none", <<>>, <<>>, 0, TRUE, FALSE, 0)}

\* the countdowns left of the freeze: it ends in the second update, and
\* it outlasts the run
FrozenLeft == {1, 100}

GameInit ==
    /\ \E w \in {TitleWorld} \cup {SceneWorld(sc) : sc \in Scenes}
                \cup {StageWorld(st) : st \in Stages}
                \cup {ShopWorld(st) : st \in ShopStages}
                \cup {SpentWorld(st) : st \in SpentStages}
                \cup {FrozenWorld(st, left) : st \in FrozenStages, left \in FrozenLeft}
                \cup {KillWorld(st) : st \in KillStages}
                \cup {StageWorld(st) : st \in CornerStages \cup DyingStages}
                \cup {AwardedWorld(st) : st \in AwardedStages}
                \cup {ChannelWorld(st, rooted) : st \in ChannelStages,
                                                 rooted \in BOOLEAN} :
          /\ game = w.game
          /\ cm = w.cm
          /\ fog = w.fog
          /\ combat = w.combat
          /\ player = w.player
          /\ mz = w.mz
    /\ loop = NewGameLoop
    /\ hist = [NewHist EXCEPT
                  !.powerUpFailed = searchFailed(game),
                  !.since = [k \in 1 .. Len(game.pendingBonuses) |->
                                IF game.inShop THEN 0 ELSE game.levelTime \div DT]]

\* The long runs: a level played to its end and the level after it, for
\* more than a second of play, with no key touched after the first update.
\* The runs begin 39 units from the exit of level 2 and of level 3 (the shop
\* follows), unhurt and before the par time, and of level 2 at the par time
\* and hurt.
BonusScenes ==
    {Scene(2, 1200, 39, FALSE, FALSE), Scene(3, 1200, 39, FALSE, FALSE),
     Scene(2, baseRateUpdates(2) + 1, 39, FALSE, FALSE),
     Scene(2, 1200, 39, TRUE, FALSE)}

BonusInit ==
    /\ \E w \in {SceneWorld(sc) : sc \in BonusScenes} :
          /\ game = w.game
          /\ cm = w.cm
          /\ fog = w.fog
          /\ combat = w.combat
          /\ player = w.player
          /\ mz = w.mz
    /\ loop = NewGameLoop
    /\ hist = [NewHist EXCEPT !.long = TRUE, !.inputs = MaxInputs,
                              !.powerUpFailed = searchFailed(game)]

NextBonus ==
    \/ ShopUpdate
    \/ ClickCloseShop
    \/ UpdateLevelTimer
    \/ DrawingStep
    \/ UpdateTeleporting
    \/ UpdateShockwave
    \/ UpdatePlayer
    \/ HandleInput
    \/ UpdateFogOfWar
    \/ UpdateCreatures
    \/ UpdateCombat
    \/ UpdatePowerUps
    \/ UpdatePoints
    \/ CheckWinCondition
    \/ UpdatePendingBonuses

(***************************************************************************)
(* Properties of the orchestrator                                          *)
(***************************************************************************)
\* the call of the running update made last
LastCall == IF hist.calls = <<>> THEN "" ELSE hist.calls[Len(hist.calls)]

\* the player is less than TILE_SIZE from the middle of the exit room
NearExit ==
    LET exitRoom == mz.rooms[mz.exitRoom]
        dx == player.x - (exitRoom.centerX * TILE_SIZE + TILE_SIZE \div 2) * PosScale
        dy == player.y - (exitRoom.centerY * TILE_SIZE + TILE_SIZE \div 2) * PosScale
    IN dx * dx + dy * dy < (TILE_SIZE * PosScale) * (TILE_SIZE * PosScale)

\* the step ends the level: the next level begins or the shop opens
LevelEnds ==
    \/ game'.currentLevel = game.currentLevel + 1
    \/ game'.inShop /\ ~game.inShop

\* C11: the win condition fires in an update if and only if the grace period
\* of the level has run out before the update and the player is less than
\* TILE_SIZE from the middle of the exit room; with grace time left it does
\* not fire.
C11_WinCondition ==
    [][AtStep("checkWinCondition")
         => (LevelEnds <=> (game.levelStartGracePeriod <= 0 /\ NearExit))]_vars

\* the win condition has fired on level 2 and level 3 is under way
C11_Witness ==
    /\ LastCall = "checkWinCondition"
    /\ game.currentLevel = 3
    /\ game.levelTime = 0
    /\ game.levelStartGracePeriod > 0

\* the least distance from the player a creature of this type spawns at,
\* past the torch radius
MinSpawnPast(type) ==
    IF type = "crawler" THEN (IF cm.hordeRushActive THEN 40 ELSE 20) ELSE 100

\* C12: every creature the continuous spawning of an update creates, of
\* whatever type, stands in the middle of a floor tile that is not lit when
\* it spawns and is no nearer to the player than the torch radius and the
\* least distance of its type.
C12_SpawnInDark ==
    LastCall = "updateCreatures" =>
        \A k \in 1 .. Len(hist.spawned) :
            LET creature == hist.spawned[k]
                tileX == creature.x \div (TILE_SIZE * PosScale)
                tileY == creature.y \div (TILE_SIZE * PosScale)
                dx == creature.x - player.x
                dy == creature.y - player.y
                least == TORCH_RADIUS * fog.torchRadiusMultiplier
                           + MinSpawnPast(creature.type) * 10
            IN /\ TileAt(mz, tileX, tileY) = FLOOR
               /\ creature.x = tileToWorld(tileX) /\ creature.y = tileToWorld(tileY)
               /\ ~isTileLit(fog, tileX, tileY, player.x, player.y)
               /\ 100 * (dx * dx + dy * dy) >= Sq(least * PosScale)

\* an update has spawned a crawler, a spitter and a brood mother at once,
\* after attempts on tiles that were turned down
C12_Witness ==
    /\ LastCall = "updateCreatures"
    /\ {hist.spawned[k].type : k \in 1 .. Len(hist.spawned)}
         = {"crawler", "spitter", "broodmother"}
    /\ hist.asked # {}

\* the most creatures that may be alive on the level: 50 and 30 for each
\* level past the first, 500 at most; twice that and 800 at most in a horde
\* rush
MaxAliveOf(level, horde) ==
    LET base == Min(500, 50 + 30 * (level - 1))
    IN IF horde THEN Min(800, 2 * base) ELSE base

\* C14: at the end of every update no more creatures are alive, of all
\* types together, than the most that may be alive on the level.
C14_AliveWithinMax ==
    (game.pc = 0 /\ Playing(game)) =>
        Cardinality({k \in 1 .. Len(cm.creatures) : cm.creatures[k].alive})
            <= MaxAliveOf(game.currentLevel, cm.hordeRushActive)

\* the subsystems of an update in their order: the level timer with the
\* horde trigger, teleport and shockwave; the player's movement; the light;
\* the creatures; the combat; the points and the win condition
Subsystems ==
    <<"levelTimer", "updateTeleporting", "updateShockwave", "updatePlayer",
      "updateFogOfWar", "updateCreatures", "updateCombat", "updatePoints",
      "checkWinCondition">>

\* the calls of subsystems the running update has made, in the order made
SubsystemCalls ==
    SelectSeq(hist.calls,
              LAMBDA name : \E i \in 1 .. Len(Subsystems) : Subsystems[i] = name)

\* C16: every update of a level under way runs the subsystems in one
\* order: timers, player movement, light, creatures, combat, then points
\* and win condition; none runs out of turn and none is left out.
C16_FixedOrder ==
    /\ SubsystemCalls = SubSeq(Subsystems, 1, Len(SubsystemCalls))
    /\ (game.pc = 0 /\ hist.ticks > 0) => SubsystemCalls = Subsystems

\* a second update has run to its end
C16_Witness ==
    /\ game.pc = 0
    /\ hist.ticks = 2
    /\ SubsystemCalls = Subsystems

\* C17: the light the spawning of an update consults is the light the
\* update before has left: every tile whose light the spawning asks for is
\* lit for it exactly if it was lit when the update began.
C17_LightOfLastUpdate ==
    LastCall = "updateCreatures" =>
        \A tile \in hist.asked :
            isTileLit(fog, tile.x, tile.y, player.x, player.y)
              <=> isTileLit(hist.fogBefore, tile.x, tile.y,
                            hist.playerBefore.x, hist.playerBefore.y)

\* the state of the orchestrator: the branch Game.update takes
StateOf(g) ==
    IF g.onTitleScreen THEN "TITLE"
    ELSE IF g.gameOver THEN "GAME_OVER"
    ELSE IF g.inShop THEN "SHOP"
    ELSE "PLAYING"

\* the changes of state the coarse state machine allows
CoarseChanges ==
    {<<"TITLE", "PLAYING">>, <<"PLAYING", "SHOP">>, <<"SHOP", "PLAYING">>,
     <<"PLAYING", "GAME_OVER">>, <<"GAME_OVER", "TITLE">>,
     <<"GAME_OVER", "PLAYING">>}

\* C18 as stated: the state changes only from TITLE to PLAYING, between
\* PLAYING and SHOP, from PLAYING to GAME_OVER, and from GAME_OVER to TITLE
\* or PLAYING.
C18_CoarseOnly ==
    [][StateOf(game') # StateOf(game)
         => <<StateOf(game), StateOf(game')>> \in CoarseChanges]_vars

\* C18: the state changes only along the changes of the coarse state
\* machine and from SHOP to TITLE, the way back to the main menu the shop
\* offers.
C18_Changes ==
    [][StateOf(game') # StateOf(game)
         => <<StateOf(game), StateOf(game')>>
              \in CoarseChanges \cup {<<"SHOP", "TITLE">>}]_vars

\* the shop was left for the main menu: the title screen after level 3,
\* with the player alive
C18_Witness ==
    /\ StateOf(game) = "TITLE"
    /\ game.currentLevel = 3
    /\ game.playerHP > 0
    /\ ~game.inShop

\* the step is a call of checkWinCondition that finds the exit reached
ExitReached ==
    AtStep("checkWinCondition") /\ game.levelStartGracePeriod <= 0 /\ NearExit

\* the step starts the level after the current one
NextLevelStarts == game.currentLevel >= 1 /\ game'.currentLevel = game.currentLevel + 1

\* C19 as stated: whenever the exit is reached the shop opens, and the next
\* level starts only when the shop is closed.
C19_ShopAlways ==
    [][/\ ExitReached => game'.inShop /\ game'.currentLevel = game.currentLevel
       /\ NextLevelStarts => game.inShop /\ ~game'.inShop]_vars

\* C19: when the exit is reached on a level whose number is a multiple of
\* 3 the shop opens, and the next level starts only when the shop is
\* closed; when it is reached on another level the next level starts at
\* once, without the shop.  A level starts in no other way after the one
\* before it.
C19_ShopEveryThird ==
    [][/\ ExitReached =>
            IF game.currentLevel % 3 = 0
            THEN game'.inShop /\ game'.currentLevel = game.currentLevel
            ELSE ~game'.inShop /\ game'.currentLevel = game.currentLevel + 1
       /\ NextLevelStarts =>
            \/ game.inShop /\ ~game'.inShop
            \/ ExitReached /\ game.currentLevel % 3 # 0]_vars

\* the exit of level 3 was reached and the shop is open
C19_Witness ==
    /\ LastCall = "checkWinCondition"
    /\ game.inShop
    /\ game.currentLevel = 3
    /\ ~game.gameOver

\* C20: once the player has died, and until a restart or the return to
\* the title screen, the level, the points, the cumulative points and the
\* shop stay as they are, the rest of the update of the death included.
C20_GameOverIsTerminal ==
    [][(/\ game.gameOver /\ ~game.onTitleScreen
        /\ game'.gameOver /\ ~game'.onTitleScreen)
         => /\ game'.currentLevel = game.currentLevel
            /\ game'.points = game.points
            /\ game'.cumulativePoints = game.cumulativePoints
            /\ game'.inShop = game.inShop]_vars

\* the step starts a new game: from the title screen or from the death
\* screen into a level
NewGameStarts ==
    /\ game.onTitleScreen \/ game.gameOver
    /\ ~game'.onTitleScreen /\ ~game'.gameOver

\* the state of a run that carries nothing over, but for the total time
FreshUpgrades(g, co) ==
    /\ g.currentLevel = 1
    /\ g.points = 0 /\ g.cumulativePoints = 0
    /\ co.killCount = 0 /\ g.lastKillCount = 0
    /\ g.playerHP = PLAYER_MAX_HP * HpScale
    /\ g.playerMaxHP = PLAYER_MAX_HP * HpScale
    /\ g.damageMultiplier = MultScale /\ co.damageMultiplier = MultScale
    /\ g.fireRateMultiplier = MultScale /\ co.fireRateMultiplier = MultScale
    /\ g.speedMultiplier = MultScale
    /\ g.torchMultiplier = 10
    /\ g.lanternCount = 2 /\ g.flareCount = 1
    /\ g.teleporterCount = 0 /\ g.shockwaveCount = 0
    /\ co.ownedWeapons = {"pistol"} /\ ~co.hasScythe
    /\ g.shop = NewShop
    /\ g.pendingBonuses = <<>>
    /\ g.levelTime = 0

\* C21: after a new game is started, from the title screen or from the
\* death screen, the run is in its initial state: level 1, no points, no
\* kills, full health of 50, every multiplier 1, 2 lanterns and 1 flare,
\* the pistol alone, level time 0 and total time 0
C21_FreshRun ==
    [][NewGameStarts => /\ FreshUpgrades(game', combat')
                        /\ game'.totalTime = 0]_vars

\* C21, without the total time: all else is reset by both ways into a
\* new game
C21_FreshButTotalTime ==
    [][NewGameStarts => FreshUpgrades(game', combat')]_vars

\* the step starts a level: a new game, or a level after another
LevelStarts == NewGameStarts \/ game'.currentLevel = game.currentLevel + 1

\* nothing of a level before is in the world
CleanLevel(w) ==
    /\ w.cm.creatures = <<>>
    /\ w.cm.gooProjectiles = <<>> /\ w.cm.gooPuddles = <<>>
    /\ w.combat.bullets = <<>>
    /\ w.cm.playerRootedTime = 0
    /\ w.game.powerUpSystem.activeEffects = <<>>
    /\ ~w.game.isTeleporting /\ ~w.game.shockwaveActive
    /\ w.fog.lanterns = <<>> /\ w.fog.flares = <<>> /\ w.fog.flyingFlares = <<>>
    /\ \A t \in DOMAIN w.fog.lastLitTime :
          w.fog.lastLitTime[t] = 0 /\ ~w.fog.permanentlyLit[t]

\* C22: when a level starts, after a level or by a new game, there are no
\* creatures, no goo projectiles, no goo puddles and no bullets, the player
\* is not rooted, no effect of a power-up is active, no teleport and no
\* shockwave is under way, no lantern and no flare exists, and every tile
\* is unseen and not permanently lit; and so it stays until the first
\* update of the level begins
C22_CleanLevelStart ==
    [][/\ LevelStarts => CleanLevel(World)'
       /\ (game.levelTime = 0 /\ game.currentLevel >= 1 /\ CleanLevel(World)
            /\ ~(game.pc = 0 /\ Playing(game)))
              => (game'.levelTime = 0 => CleanLevel(World)')]_vars

\* level 5 begins where level 4 ended with creatures, goo, a puddle, a
\* root, bullets, effects, a teleport, a shockwave, a lantern and a flare
C22_Witness ==
    /\ game.currentLevel = 5 /\ game.levelTime = 0
    /\ game.lanternCount = 1 /\ game.flareCount = 0
    /\ ~game.gameOver
    /\ hist.busyBefore

\* 2 while the effect is active, 1 otherwise
EffectFactor(type) == IF hasEffect(game.powerUpSystem, type) THEN 2 ELSE 1

\* C23: while a level is played, the damage multiplier of the combat system
\* is the one the upgrades made, doubled exactly while the double damage is
\* active, and the fire rate multiplier is the one the upgrades made,
\* doubled exactly while the berserker is active; an effect that has ended,
\* by running out or with the level, leaves the multiplier of the upgrades
C23_Multipliers ==
    Playing(game) =>
        /\ combat.damageMultiplier
             = game.damageMultiplier * EffectFactor("doubledamage")
        /\ combat.fireRateMultiplier
             = game.fireRateMultiplier * EffectFactor("berserker")

\* the double damage and the berserker have just run out in a level played
\* with upgrades of both multipliers
C23_Witness ==
    /\ Playing(game) /\ LastCall = "updatePowerUps"
    /\ hist.ticks = 2
    /\ game.powerUpSystem.activeEffects = <<>>
    /\ game.damageMultiplier = MultScale + 300
    /\ game.fireRateMultiplier = MultScale + 200
    /\ combat.damageMultiplier = game.damageMultiplier
    /\ combat.fireRateMultiplier = game.fireRateMultiplier

\* the updates of play that make the delay of a bonus: 0.5 s and 1.0 s
WaitOf(label) ==
    IF label = "BUZZER BEATER" THEN UPDATES_PER_SECOND \div 2 ELSE UPDATES_PER_SECOND

\* the step that ends a level pays the map size at once and queues, unpaid,
\* the early bonus if the level time is below the par time and the no-damage
\* bonus if no damage was taken
AwardsAtEnd ==
    LET mapSize == getMapSize(game.currentLevel)
        had == Len(game.pendingBonuses)
        new == SubSeq(game'.pendingBonuses, had + 1, Len(game'.pendingBonuses))
        labels == {new[i].label : i \in DOMAIN new}
    IN /\ game'.points = game.points + mapSize
       /\ game'.cumulativePoints = game.cumulativePoints + mapSize
       /\ Len(game'.pendingBonuses) >= had
       /\ SubSeq(game'.pendingBonuses, 1, had) = game.pendingBonuses
       /\ Len(new) = Cardinality(labels)
       /\ "BUZZER BEATER" \in labels <=> ~parReached(game.levelTime, game.parTime)
       /\ "UNSCATHED" \in labels <=> game.levelDamageTaken = 0
       /\ \A i \in DOMAIN new :
             \/ /\ new[i].label = "BUZZER BEATER"
                /\ new[i].amount = earlyBonus(game.levelTime, game.parTime)
             \/ /\ new[i].label = "UNSCATHED"
                /\ new[i].amount = 50 + 10 * game.currentLevel

\* the amounts of the bonuses at the places `paid`
RECURSIVE amountOf(_, _)
amountOf(pending, paid) ==
    IF paid = {} THEN 0
    ELSE LET i == CHOOSE k \in paid : TRUE
         IN pending[i].amount + amountOf(pending, paid \ {i})

\* the step pays the bonuses at the places `paid` and no other, and drops
\* them from the queue
Pays(paid) ==
    /\ Len(game'.pendingBonuses) = Len(game.pendingBonuses) - Cardinality(paid)
    /\ LET kept == RemoveAt(game.pendingBonuses, paid)
       IN \A i \in DOMAIN kept :
             /\ game'.pendingBonuses[i].label = kept[i].label
             /\ game'.pendingBonuses[i].amount = kept[i].amount
    /\ game'.points = game.points + amountOf(game.pendingBonuses, paid)
    /\ game'.cumulativePoints = game.cumulativePoints + amountOf(game.pendingBonuses, paid)

\* no step but the end of a level and updatePendingBonuses touches the
\* queue, and no step but these, the kills and the purchases the points
QueueKept ==
    (~AtStep("checkWinCondition") /\ ~AtStep("updatePendingBonuses")
       /\ game.pc > 0 /\ game'.pc # 1)
      => /\ game'.pendingBonuses = game.pendingBonuses
         /\ game'.cumulativePoints >= game.cumulativePoints

\* C24: the end of a level adds the map size to the points at once; the
\* early bonus floor(2 x (parTime - levelTime)), queued only if the level
\* time is below the par time, and the no-damage bonus 50 + 10 x level,
\* queued only if no damage was taken, are added to the points and to the
\* cumulative points only after 0.5 s and 1.0 s (30 and 60 updates) of play
\* in the level that follows, each once.
C24_BonusesAfterDelay ==
    [][/\ (AtStep("checkWinCondition") /\ LevelEnds) => AwardsAtEnd
       /\ AtStep("updatePendingBonuses")
            => \E paid \in SUBSET DOMAIN game.pendingBonuses :
                  /\ Pays(paid)
                  /\ \A i \in paid :
                        hist.since[i] >= WaitOf(game.pendingBonuses[i].label)
       /\ QueueKept]_vars

\* What holds: the countdown of a bonus starts in the update that ends the
\* level, which runs updatePendingBonuses after checkWinCondition.  The
\* early bonus is paid in the 30th update of play that follows (the double
\* 0.5 - 30/60 is above 0 in the 30th countdown), the no-damage bonus in
\* the 59th, and no bonus waits longer.
C24_DelayFromTheEnd ==
    [][/\ (AtStep("checkWinCondition") /\ LevelEnds) => AwardsAtEnd
       /\ AtStep("updatePendingBonuses")
            => \E paid \in SUBSET DOMAIN game.pendingBonuses :
                  /\ Pays(paid)
                  /\ \A i \in DOMAIN game.pendingBonuses :
                        i \in paid <=>
                           hist.since[i] >=
                              (IF game.pendingBonuses[i].label = "BUZZER BEATER"
                               THEN WaitOf("BUZZER BEATER")
                               ELSE WaitOf("UNSCATHED") - 1)
       /\ QueueKept]_vars

\* the no-damage bonus of level 2 has been paid in level 3
C24_Paid ==
    /\ game.currentLevel = 3 /\ game.pc = 0 /\ hist.long
    /\ game.pendingBonuses = <<>>
    /\ game.cumulativePoints > mapSizesBelow(4)

\* the state but for the place in the running update
Simulation == [World EXCEPT !.game.pc = 0]

\* C25: a key of handleInput pressed while the count of its item is 0
\* changes nothing: no lantern is placed, no flare thrown, no teleport
\* started, no creature frozen and no shockwave set off, and the count stays
\* 0.
C25_NothingLeftNoOp ==
    [][AtStep("handleInput") =>
         /\ ("KeyE" \in hist'.pressed /\ game.lanternCount = 0)
               => fog'.lanterns = fog.lanterns /\ game'.lanternCount = 0
         /\ ("KeyF" \in hist'.pressed /\ game.flareCount = 0)
               => /\ fog'.flares = fog.flares /\ fog'.flyingFlares = fog.flyingFlares
                  /\ game'.flareCount = 0
         /\ ("Digit4" \in hist'.pressed /\ game.teleporterCount = 0)
               => /\ game'.isTeleporting = game.isTeleporting
                  /\ game'.teleportProgress = game.teleportProgress
                  /\ game'.teleporterCount = 0 /\ player' = player
         /\ ("Digit5" \in hist'.pressed /\ game.shockwaveCount = 0)
               => /\ game'.shockwaveActive = game.shockwaveActive
                  /\ game'.shockwaveProgress = game.shockwaveProgress
                  /\ game'.shockwaveCount = 0 /\ cm' = cm
         /\ (\A k \in hist'.pressed :
                (k = "KeyE" /\ game.lanternCount = 0) \/ (k = "KeyF" /\ game.flareCount = 0)
                \/ (k = "Digit4" /\ game.teleporterCount = 0)
                \/ (k = "Digit5" /\ game.shockwaveCount = 0))
               => Simulation' = Simulation]_vars

\* the four keys were down in the handleInput just made, with nothing left
\* of any of the four items, no teleport and no shockwave under way
C25_Witness ==
    /\ LastCall = "handleInput"
    /\ hist.pressed = {"KeyE", "KeyF", "Digit4", "Digit5"}
    /\ game.lanternCount = 0 /\ game.flareCount = 0
    /\ game.teleporterCount = 0 /\ game.shockwaveCount = 0
    /\ ~game.isTeleporting /\ ~game.shockwaveActive
    /\ Len(fog.lanterns) = 2

\* C26: while the shield effect is active the damage of the creatures is
\* not taken: no step of a played update changes the health of the player or
\* adds to the damage taken in the level (the end of a level starts the
\* count of the next one), and none ends the game.
C26_ShieldNegates ==
    [][(Playing(game) /\ hasEffect(game.powerUpSystem, "shield"))
         => /\ game'.playerHP = game.playerHP
            /\ game'.levelDamageTaken = game.levelDamageTaken \/ LevelEnds
            /\ ~game'.gameOver]_vars

\* under the shield, the creature manager has just reported damage that
\* would have taken the last health of the player
C26_Witness ==
    /\ LastCall = "updateCreatures"
    /\ hasEffect(game.powerUpSystem, "shield")
    /\ hist.damage >= game.playerHP /\ game.playerHP > 0
    /\ ~game.gameOver

\* the step is the head of a played update: levelTime += dt
TimerStep == game.pc = 0 /\ Playing(game) /\ game'.pc = 1

\* C28: the horde rush becomes active in the first update in which the
\* time of the level exceeds the par time, and in no other step; once
\* active it stays so until a level starts (or the game goes to the title
\* screen); and every start of a level leaves it inactive, with the spawn
\* rate 0.8 + 0.3 (level - 1), the speed multiplier 1 + 0.05 (level - 1)
\* and at most min(500, 50 + 30 (level - 1)) creatures alive.
C28_HordeOncePerLevel ==
    [][LET par == game.parTime * 1000 * MsScale
           begins == cm'.hordeRushActive /\ ~cm.hordeRushActive
           level == game'.currentLevel
       IN /\ TimerStep => (begins <=> (game.levelTime <= par /\ game'.levelTime > par))
          /\ begins => TimerStep
          /\ (cm.hordeRushActive /\ ~cm'.hordeRushActive)
               => LevelStarts \/ game'.onTitleScreen
          /\ LevelStarts
               => /\ ~cm'.hordeRushActive
                  /\ cm'.spawnRate = 8 + 3 * (level - 1)
                  /\ cm'.speedMultiplier = MultScale + 50 * (level - 1)
                  /\ cm'.maxCreaturesAlive = Min(500, 50 + 30 * (level - 1))]_vars

\* level 3 is under way with no horde rush, after a level 2 that ended past
\* its par time, in the horde rush
C28_Witness ==
    /\ game.currentLevel = 3 /\ Playing(game) /\ hist.ticks > 0
    /\ ~cm.hordeRushActive
    /\ game.totalTime - LevelUpdates * DT > parTimeOf(getMapSize(2)) * 1000 * MsScale

\* C29: while the horde rush is active every alive crawler has the speed
\* CRAWLER_BASE_SPEED x (1 + 0.05 (level - 1)) x 1.5, whether it was alive,
\* frozen or not, when the rush began or was made later by the spawner or
\* by a brood mother.
C29_HordeSpeed ==
    cm.hordeRushActive =>
        \A k \in 1 .. Len(cm.creatures) :
           (cm.creatures[k].alive /\ cm.creatures[k].type = "crawler")
             => 2 * cm.creatures[k].speed
                  = 3 * CRAWLER_BASE_SPEED * (MultScale + 50 * (game.currentLevel - 1))

\* the horde rush has begun in this update with a frozen crawler alive
C29_Witness ==
    /\ cm.hordeRushActive /\ hist.ticks = 1 /\ Playing(game)
    /\ game.levelTime = (baseRateUpdates(game.currentLevel) + 1) * DT
    /\ \E k \in 1 .. Len(cm.creatures) :
          /\ cm.creatures[k].alive /\ cm.creatures[k].type = "crawler"
          /\ cm.creatures[k].frozen

\* the step is the call of updateCreatures in a played update
CreaturesStep == AtStep("updateCreatures") /\ game'.pc # game.pc

\* the creature is frozen when its turn comes and its timer stays positive
\* under the countdown of the turn
StaysFrozen(creature) ==
    creature.alive /\ creature.frozen /\ creature.frozenTime - DT >= 0

\* the crawler touches the player
Touches(creature) ==
    Sq(creature.x - player.x) + Sq(creature.y - player.y)
        <= Sq((creature.size \div 2 + 12) * PosScale)

\* C30: in an update of the creatures, an enemy whose freeze has not run
\* out is left as it was but for the countdown of its freeze: it keeps its
\* place, its attack and spawn cooldown and its windup; no goo leaves a
\* spitter that stays frozen; the creatures added are those of the spawner
\* alone when every brood mother stays frozen; the damage is at most that of
\* the crawlers that are not frozen afterwards; and an enemy whose freeze
\* has run out is not frozen afterwards.
C30_FrozenSkips ==
    [][CreaturesStep =>
        /\ Len(cm'.creatures) >= Len(cm.creatures)
        /\ \A k \in 1 .. Len(cm.creatures) :
              LET creature == cm.creatures[k]
              IN /\ StaysFrozen(creature)
                      => /\ cm'.creatures[k] = [creature EXCEPT !.frozenTime = @ - DT]
                         /\ creature.type = "spitter"
                              => \A i \in 1 .. Len(cm'.gooProjectiles) :
                                    \/ cm'.gooProjectiles[i].x # creature.x
                                    \/ cm'.gooProjectiles[i].y # creature.y
                 /\ (creature.alive /\ creature.frozen /\ ~StaysFrozen(creature))
                      => ~cm'.creatures[k].frozen
        /\ (\A k \in 1 .. Len(cm.creatures) :
                cm.creatures[k].type = "broodmother" => StaysFrozen(cm.creatures[k]))
             => Len(cm'.creatures) = Len(cm.creatures) + Len(hist'.spawned)
        /\ hist'.damage <= CRAWLER_DAMAGE_PER_SECOND * Cardinality(
               {k \in 1 .. Len(cm'.creatures) :
                   cm'.creatures[k].type = "crawler" /\ ~cm'.creatures[k].frozen})]_vars

\* the creatures have been updated: a frozen crawler touches the player and
\* no damage is done, the spitter whose cooldown was to end and the brood
\* mother whose brood was due have their timers as before, the spitter whose
\* windup was to end has fired no goo
C30_Witness ==
    /\ LastCall = "updateCreatures" /\ hist.damage = 0
    /\ cm.gooProjectiles = <<>>
    /\ \E k \in 1 .. Len(cm.creatures) :
          LET creature == cm.creatures[k]
          IN creature.type = "crawler" /\ creature.frozen /\ Touches(creature)
    /\ \E k \in 1 .. Len(cm.creatures) :
          LET creature == cm.creatures[k]
          IN /\ creature.type = "spitter" /\ creature.frozen
             /\ ~creature.isWindingUp /\ creature.attackCooldown = DT
    /\ \E k \in 1 .. Len(cm.creatures) :
          LET creature == cm.creatures[k]
          IN /\ creature.type = "spitter" /\ creature.frozen
             /\ creature.isWindingUp /\ creature.attackWindup = DT
    /\ \E k \in 1 .. Len(cm.creatures) :
          LET creature == cm.creatures[k]
          IN /\ creature.type = "broodmother" /\ creature.frozen
             /\ creature.spawnCooldown = DT

\* the freeze has run out: the creatures act again, the crawler bites, the
\* goo flies and the brood is there
C30_Thawed ==
    /\ LastCall = "updateCreatures" /\ hist.damage > 0
    /\ cm.gooProjectiles # <<>>
    /\ \A k \in 1 .. Len(cm.creatures) : ~cm.creatures[k].frozen
    /\ \E k \in 1 .. Len(cm.creatures) :
          cm.creatures[k].type = "broodmother"
             /\ cm.creatures[k].spawnCooldown = BROODMOTHER_SPAWN_COOLDOWN

\* the ids of the creatures in the list
IdsOf(c) == {c.creatures[k].id : k \in 1 .. Len(c.creatures)}

\* the step is the call of updateCombat, of updatePoints, in a played update
CombatStep == AtStep("updateCombat") /\ game'.pc # game.pc
PointsStep == AtStep("updatePoints") /\ game'.pc # game.pc

\* C32: every creature in the list is alive with hit points above 0; an
\* update of the combat system adds to the kill count exactly the number of
\* creatures that leave the list in it, whatever the number of bullets and
\* cuts that struck them, and nothing else adds to the kill count;
\* updatePoints pays POINTS_PER_KILL for every kill not yet paid, so that at
\* the end of an update every kill of the run is paid once.
C32_OneKillEach ==
    [][/\ \A k \in 1 .. Len(cm'.creatures) :
             cm'.creatures[k].alive /\ cm'.creatures[k].hp > 0
       /\ CombatStep
            => /\ IdsOf(cm') \subseteq IdsOf(cm)
               /\ combat'.killCount - combat.killCount
                     = Cardinality(IdsOf(cm) \ IdsOf(cm'))
       /\ ~CombatStep
            => combat'.killCount = combat.killCount \/ combat'.killCount = 0
       /\ PointsStep
            => /\ game'.points - game.points
                     = POINTS_PER_KILL * (combat.killCount - game.lastKillCount)
               /\ game'.cumulativePoints - game.cumulativePoints
                     = POINTS_PER_KILL * (combat.killCount - game.lastKillCount)
               /\ game'.lastKillCount = combat.killCount
       /\ game'.pc = 0 => game'.lastKillCount = combat'.killCount]_vars

\* the combat system has been updated: two or more bullets have struck the
\* same creature, which has left the list, one kill is not yet paid, and the
\* blade has killed a creature before
C32_Witness ==
    /\ LastCall = "updateCombat"
    /\ Len(hist.struck) >= 2 /\ hist.struck[1] = hist.struck[2]
    /\ hist.struck[1] \notin IdsOf(cm)
    /\ combat.killCount = game.lastKillCount + 1
    /\ \E i \in 1 .. Len(combat.scytheHitCooldowns) :
          combat.scytheHitCooldowns[i].id \notin IdsOf(cm)
    /\ game.lastKillCount >= 1

(***************************************************************************)
(* The spitter: a level with one spitter, the spawner stopped              *)
(***************************************************************************)
\* updates per run: a windup that begins in the first updates ends in it
SpitHorizonTicks == 52
\* times the ghost effect begins or ends, and times the player changes
\* place, in a run
MaxGhosts == 2
MaxMoves == 2

\* The spitter stands at (380, 140), on tile (9, 3) of room A.  The player
\* is 180 away in room A, in sight; or 369 away in room A, in sight and out
\* of range; or 160 away in room B, behind the wall of row 3.
SpitterAt == [x |-> 380 * PosScale, y |-> 140 * PosScale]
SpitPlayerSpots ==
    {[x |-> 200 * PosScale, y |-> 140 * PosScale],
     [x |-> 100 * PosScale, y |-> 380 * PosScale],
     [x |-> 540 * PosScale, y |-> 140 * PosScale]}

\* the spitter was created with two updates of its cooldown left
SpitInit ==
    /\ mz = CombatMaze
    /\ fog = CombatFog
    /\ player \in SpitPlayerSpots
    /\ combat = NewCombatSystem
    /\ game = gameStartLevel(NewGame, 3)
    /\ cm = [stopSpawning(createSpitter(cmStartLevel(NewCreatureManager, 3),
                                         SpitterAt.x, SpitterAt.y, 2))
               EXCEPT !.creatures[1].attackCooldown = 2 * DT]
    /\ loop = NewGameLoop
    /\ hist = NewHist

\* onPowerUpStart('ghost') and onPowerUpEnd('ghost')
SpitGhost ==
    /\ hist.ghosts < MaxGhosts
    /\ cm' = setPlayerInvisible(cm, ~cm.playerInvisible)
    /\ hist' = [hist EXCEPT !.ghosts = @ + 1]
    /\ UNCHANGED <<grid, mz, fog, player, combat, game, loop>>

\* One update: the player stays or has moved to another of the places, then
\* CreatureManager.update.  hist keeps the goos the update has fired, the
\* updates the windup under way has lasted and where the player stood when
\* it began.
SpitTick ==
    /\ hist.spitTicks < SpitHorizonTicks
    /\ \E spot \in SpitPlayerSpots :
         /\ spot # player => hist.moves < MaxMoves
         /\ player' = spot
         /\ \E rnd \in Randoms(cm) :
            \E r \in {cmUpdate(cm, fog, mz, spot.x, spot.y, rnd)} :
              /\ cm' = r.cm
              /\ hist' = [hist EXCEPT
                    !.spitTicks = @ + 1,
                    !.moves = IF spot # player THEN @ + 1 ELSE @,
                    !.fired = Len(r.cm.gooProjectiles)
                                - Len(updateGoo(cm, spot.x, spot.y).cm.gooProjectiles),
                    !.wound = IF ~cm.creatures[1].isWindingUp THEN 0 ELSE @ + 1,
                    !.aimed = IF ~cm.creatures[1].isWindingUp THEN spot ELSE @]
    /\ UNCHANGED <<grid, mz, fog, combat, game, loop>>

NextSpit == SpitGhost \/ SpitTick

\* the step is an update of the level with the spitter
SpitStep == hist'.spitTicks # hist.spitTicks

\* the last goo of the list
LastGoo(c) == c.gooProjectiles[Len(c.gooProjectiles)]

\* C31: in an update, the spitter begins a windup only if its cooldown has
\* run out, the player is within SPITTER_RANGE, in line of sight and not
\* invisible, and then aims at the place of the player in that update; a
\* windup under way goes on with its aim unchanged or ends; it ends in the
\* update SPITTER_WINDUP_TIME after its begin, exactly one goo is fired then,
\* from the spitter at the place of the player when the windup began, and
\* the cooldown is SPITTER_ATTACK_COOLDOWN afterwards; no other update
\* fires a goo.
C31_WindupThenOneGoo ==
    [][SpitStep =>
        LET before == cm.creatures[1]
            after == cm'.creatures[1]
            begins == ~before.isWindingUp /\ after.isWindingUp
            ends == before.isWindingUp /\ ~after.isWindingUp
        IN /\ begins
                => /\ before.attackCooldown - DT <= 0
                   /\ Sq(player'.x - before.x) + Sq(player'.y - before.y)
                         <= Sq(SPITTER_RANGE * PosScale)
                   /\ hasLineOfSight(mz, before.x, before.y, player'.x, player'.y)
                   /\ ~cm.playerInvisible
                   /\ after.targetX = player'.x /\ after.targetY = player'.y
                   /\ after.attackWindup = SPITTER_WINDUP_TIME
           /\ (before.isWindingUp /\ after.isWindingUp)
                => /\ after.targetX = before.targetX /\ after.targetY = before.targetY
                   /\ after.attackWindup = before.attackWindup - DT
                   /\ after.attackWindup > 0
           /\ ends
                => /\ hist'.wound * DT = SPITTER_WINDUP_TIME
                   /\ hist'.fired = 1
                   /\ LastGoo(cm').x = before.x /\ LastGoo(cm').y = before.y
                   /\ LastGoo(cm').targetX = hist.aimed.x
                   /\ LastGoo(cm').targetY = hist.aimed.y
                   /\ after.attackCooldown = SPITTER_ATTACK_COOLDOWN
           /\ ~ends => hist'.fired = 0]_vars

\* the spitter has just fired: the player was in range and in sight when
\* the windup began, and has since gone behind the wall and become invisible
C31_Witness ==
    /\ hist.fired = 1 /\ hist.wound * DT = SPITTER_WINDUP_TIME
    /\ cm.playerInvisible /\ player # hist.aimed
    /\ ~hasLineOfSight(mz, SpitterAt.x, SpitterAt.y, player.x, player.y)
    /\ LastGoo(cm).targetX = hist.aimed.x /\ LastGoo(cm).targetY = hist.aimed.y

\* the cooldown has run out and the spitter waits: the player is in range
\* and in sight but invisible
C31_Waits ==
    /\ hist.spitTicks > 2 /\ cm.playerInvisible
    /\ ~cm.creatures[1].isWindingUp /\ cm.creatures[1].attackCooldown < 0
    /\ Sq(player.x - SpitterAt.x) + Sq(player.y - SpitterAt.y)
          <= Sq(SPITTER_RANGE * PosScale)
    /\ hasLineOfSight(mz, SpitterAt.x, SpitterAt.y, player.x, player.y)

(***************************************************************************)
(* SpatialHashGrid: the entities by cell                                   *)
(***************************************************************************)
\* constructor(cellSize: number = 80)
DefaultCellSize == 80

\* grid is the Map from cell key to the Set of ids of the cell, a Set being
\* the ids in the order of their insertion; entityPositions the Map from id
\* to position and cell key.  A Map is a function whose domain is its keys.
NewSpatialHashGrid(cellSize) ==
    [cellSize |-> cellSize, grid |-> <<>>, entityPositions |-> <<>>]

\* Map.set(key, value) and Map.delete(key)
MapSet(map, key, value) ==
    [k \in DOMAIN map \cup {key} |-> IF k = key THEN value ELSE map[k]]
MapDelete(map, key) == [k \in DOMAIN map \ {key} |-> map[k]]

\* getCellKey(x, y): `${cellX},${cellY}` of the floored quotients, one
\* string for every pair of cell numbers
getCellKey(g, x, y) == <<x \div g.cellSize, y \div g.cellSize>>

\* oldCell.delete(id) and, when the cell is empty, grid.delete(cellKey)
leaveCell(g, cellKey, id) ==
    IF cellKey \notin DOMAIN g.grid THEN g
    ELSE LET cell == SelectSeq(g.grid[cellKey], LAMBDA e : e # id)
         IN IF cell = <<>> THEN [g EXCEPT !.grid = MapDelete(@, cellKey)]
            ELSE [g EXCEPT !.grid = MapSet(@, cellKey, cell)]

\* if (!grid.has(cellKey)) grid.set(cellKey, new Set()); then Set.add(id)
\* and entityPositions.set(id, { x, y, cellKey })
enterCell(g, cellKey, id, x, y) ==
    LET cell == IF cellKey \in DOMAIN g.grid THEN g.grid[cellKey] ELSE <<>>
        added == IF \E k \in 1 .. Len(cell) : cell[k] = id THEN cell
                 ELSE Append(cell, id)
    IN [g EXCEPT !.grid = MapSet(@, cellKey, added),
                 !.entityPositions =
                     MapSet(@, id, [x |-> x, y |-> y, cellKey |-> cellKey])]

\* an update that records the new position and leaves the cells as they are
gridUpdateInPlace(g, id, x, y) ==
    IF id \in DOMAIN g.entityPositions
    THEN [g EXCEPT !.entityPositions[id].x = x, !.entityPositions[id].y = y]
    ELSE enterCell(g, getCellKey(g, x, y), id, x, y)

\* insert(id, x, y)
gridInsert(g, id, x, y) ==
    LET cellKey == getCellKey(g, x, y)
        g1 == IF id \in DOMAIN g.entityPositions
                   /\ g.entityPositions[id].cellKey # cellKey
              THEN leaveCell(g, g.entityPositions[id].cellKey, id)
              ELSE g
    IN enterCell(g1, cellKey, id, x, y)

\* update(id, x, y)
gridUpdate(g, id, x, y) ==
    LET newCellKey == getCellKey(g, x, y)
    IN IF id \in DOMAIN g.entityPositions
       THEN IF g.entityPositions[id].cellKey = newCellKey
            THEN [g EXCEPT !.entityPositions[id].x = x, !.entityPositions[id].y = y]
            ELSE enterCell(leaveCell(g, g.entityPositions[id].cellKey, id),
                           newCellKey, id, x, y)
       ELSE enterCell(g, newCellKey, id, x, y)

\* remove(id)
gridRemove(g, id) ==
    IF id \in DOMAIN g.entityPositions
    THEN [leaveCell(g, g.entityPositions[id].cellKey, id) EXCEPT
             !.entityPositions = MapDelete(@, id)]
    ELSE g

\* clear()
gridClear(g) == [g EXCEPT !.grid = <<>>, !.entityPositions = <<>>]

\* Math.ceil(radius / cellSize), for a radius that is not negative
cellRadiusOf(g, radius) == (radius + g.cellSize - 1) \div g.cellSize

\* getNearby(x, y, radius), from the k-th cell of its two loops on: dx is
\* the outer loop, dy the inner one
RECURSIVE nearbyFrom(_, _, _, _, _)
nearbyFrom(g, centerCellX, centerCellY, cellRadius, k) ==
    LET side == 2 * cellRadius + 1
        cellKey == <<centerCellX - cellRadius + (k \div side),
                     centerCellY - cellRadius + (k % side)>>
    IN IF k >= side * side THEN <<>>
       ELSE (IF cellKey \in DOMAIN g.grid THEN g.grid[cellKey] ELSE <<>>)
               \o nearbyFrom(g, centerCellX, centerCellY, cellRadius, k + 1)

getNearby(g, x, y, radius) ==
    nearbyFrom(g, x \div g.cellSize, y \div g.cellSize, cellRadiusOf(g, radius), 0)

\* the square of the distance from the recorded position of id to (x, y)
distSqOf(g, id, x, y) ==
    LET pos == g.entityPositions[id]
    IN (pos.x - x) * (pos.x - x) + (pos.y - y) * (pos.y - y)

\* getNearbyWithDistance(x, y, radius): the candidates whose position is
\* recorded and lies within the radius, each with distSq (the code returns
\* its square root)
getNearbyWithDistance(g, x, y, radius) ==
    LET near == SelectSeq(getNearby(g, x, y, radius),
                    LAMBDA id : /\ id \in DOMAIN g.entityPositions
                                /\ distSqOf(g, id, x, y) <= radius * radius)
    IN [k \in 1 .. Len(near) |->
           [id |-> near[k], distSq |-> distSqOf(g, near[k], x, y)]]

\* Bounds of the grid model: the ids, and the coordinates on both sides of
\* the cell borders; the queries' points and radii
MaxGridId == 3
GridIds == 1 .. MaxGridId
GridXs == {-81, -1, 0, 79, 80}
GridYs == {0, 80}
QueryXs == {-40, 79, 120}
QueryYs == {0, 79}
QueryRadii == {0, 41, 81, 122}

GridInit ==
    /\ grid = NewSpatialHashGrid(DefaultCellSize)
    /\ hist = NewHist

\* the entity changes its cell with the call
cellChanges(g, id, x, y) ==
    /\ id \in DOMAIN g.entityPositions
    /\ g.entityPositions[id].cellKey # getCellKey(g, x, y)

GridInsert ==
    /\ \E id \in GridIds, x \in GridXs, y \in GridYs :
          /\ grid' = gridInsert(grid, id, x, y)
          /\ hist' = [hist EXCEPT !.gridOp = [op |-> "insert", id |-> id,
                                              moved |-> cellChanges(grid, id, x, y)]]
    /\ UNCHANGED <<mz, fog, player, cm, combat, game, loop>>

GridUpdate ==
    /\ \E id \in GridIds, x \in GridXs, y \in GridYs :
          /\ grid' = gridUpdate(grid, id, x, y)
          /\ hist' = [hist EXCEPT !.gridOp = [op |-> "update", id |-> id,
                                              moved |-> cellChanges(grid, id, x, y)]]
    /\ UNCHANGED <<mz, fog, player, cm, combat, game, loop>>

GridRemove ==
    /\ \E id \in GridIds :
          /\ grid' = gridRemove(grid, id)
          /\ hist' = [hist EXCEPT !.gridOp = [op |-> "remove", id |-> id,
                                              moved |-> FALSE]]
    /\ UNCHANGED <<mz, fog, player, cm, combat, game, loop>>

GridClear ==
    /\ grid' = gridClear(grid)
    /\ hist' = [hist EXCEPT !.gridOp = [op |-> "clear", id |-> 0, moved |-> FALSE]]
    /\ UNCHANGED <<mz, fog, player, cm, combat, game, loop>>

NextGrid == GridInsert \/ GridUpdate \/ GridRemove \/ GridClear

\* the ids a scan over all stored entities finds within radius of (x, y)
BruteForce(g, x, y, radius) ==
    {id \in DOMAIN g.entityPositions : distSqOf(g, id, x, y) <= radius * radius}

\* C34: after any sequence of insert, update, remove and clear, for every
\* point and radius the result of getNearbyWithDistance holds no id twice,
\* holds exactly the stored ids whose recorded position is within the
\* radius, the ids a scan over all stored entities finds, and gives each
\* the square of its distance.
C34_NearbyIsBruteForce ==
    \A x \in QueryXs, y \in QueryYs, radius \in QueryRadii :
        LET result == getNearbyWithDistance(grid, x, y, radius)
        IN /\ \A i, j \in 1 .. Len(result) : result[i].id = result[j].id => i = j
           /\ {result[k].id : k \in 1 .. Len(result)} = BruteForce(grid, x, y, radius)
           /\ \A k \in 1 .. Len(result) :
                  result[k].distSq = distSqOf(grid, result[k].id, x, y)

\* an update has moved an entity into another cell, where a second one is
\* stored; a query finds the two, and leaves out the third stored entity,
\* which is in a cell the query looks at but farther away than the radius
C34_Witness ==
    /\ hist.gridOp.op = "update" /\ hist.gridOp.moved
    /\ DOMAIN grid.entityPositions = GridIds
    /\ \E x \in QueryXs, y \in QueryYs, radius \in QueryRadii :
          LET result == getNearbyWithDistance(grid, x, y, radius)
          IN /\ Len(result) = 2
             /\ \E k \in 1 .. 2 : result[k].id = hist.gridOp.id
             /\ Len(getNearby(grid, x, y, radius)) = 3
             /\ \E cellKey \in DOMAIN grid.grid : Len(grid.grid[cellKey]) = 2

(***************************************************************************)
(* Spawn searches that find no tile                                        *)
(***************************************************************************)
\* the types of the creatures the spawning of the update has created
TypesSpawned(h) == {h.spawned[k].type : k \in 1 .. Len(h.spawned)}

\* the accumulator after an update with the spawning open: what the update
\* adds, less one creature when a spawn was due
Consumed(before, added, due) ==
    IF due THEN before + added - SpawnOne ELSE before + added

\* C33 as stated, for the power-up: in a level whose power-up search found
\* no tile, the next update in which a spawn accumulator reaches one
\* creature searches a tile for the power-up again.
C33_PowerUpRetried ==
    [][(CreaturesStep /\ hist.powerUpFailed /\ spawnDue(cm) # {})
          => hist'.tries > hist.tries]_vars

\* C33, amended: a creature spawn whose attempts find no tile creates no
\* creature and ends the update as one that found a tile does: the
\* accumulator of its type is one creature lower, once, the spawning stays
\* enabled (unless the player dies in the update), at most one creature of
\* each due type is created; so the next
\* attempt comes when the accumulator reaches one creature again.  A
\* power-up search that finds no tile leaves the level without a power-up;
\* a tile for a power-up is searched only when a level from 3 on starts,
\* at the end of the level before or when the shop closes, never in the
\* spawning of an update.
C33_FailedSpawnSkipped ==
    [][/\ CreaturesStep =>
            /\ hist'.failed \cap TypesSpawned(hist') = {}
            /\ TypesSpawned(hist') \subseteq spawnDue(cm)
            /\ Len(hist'.spawned) = Cardinality(TypesSpawned(hist'))
            /\ ~game'.gameOver => cm'.spawningEnabled = cm.spawningEnabled
            /\ spawningOpen(cm) =>
                   /\ cm'.spawnAccumulator
                        = Consumed(cm.spawnAccumulator, 2 * cm.spawnRate, crawlerDue(cm))
                   /\ cm'.spawnAccumulator < SpawnOne
                   /\ cm.currentLevel >= SPITTER_START_LEVEL =>
                          cm'.spitterSpawnAccumulator
                            = Consumed(cm.spitterSpawnAccumulator, 2, spitterDue(cm))
                   /\ cm.currentLevel >= BROODMOTHER_START_LEVEL =>
                          cm'.broodmotherSpawnAccumulator
                            = Consumed(cm.broodmotherSpawnAccumulator, 1, broodDue(cm))
       /\ (hist'.tries # hist.tries /\ hist'.powerUpFailed)
             => game'.powerUpSystem.spawnedPowerUp = NoPowerUp
       /\ hist'.tries # hist.tries
             => /\ game'.currentLevel # game.currentLevel /\ game'.currentLevel >= 3
                /\ game'.levelTime = 0
       /\ (game'.powerUpSystem.spawnedPowerUp # NoPowerUp
             /\ game'.powerUpSystem.spawnedPowerUp # game.powerUpSystem.spawnedPowerUp)
             => hist'.tries = hist.tries + 1
       /\ hist'.tries # hist.tries => AtStep("checkWinCondition") \/ game.inShop]_vars

\* in a level whose power-up search found no tile, a crawler spawn that
\* found no tile in an earlier update is attempted again, and finds one
C33_Witness ==
    /\ LastCall = "updateCreatures"
    /\ hist.powerUpFailed /\ game.powerUpSystem.spawnedPowerUp = NoPowerUp
    /\ "crawler" \in hist.again
    /\ "crawler" \in TypesSpawned(hist)

\* a spitter spawn and a crawler spawn of one update both find no tile
C33_BothFail ==
    /\ LastCall = "updateCreatures"
    /\ {"crawler", "spitter"} \subseteq hist.failed

(***************************************************************************)
(* What a run carries from level to level                                  *)
(***************************************************************************)
\* player HP and max HP, the upgrade multipliers, the consumables, the
\* weapons and the kill count with the kills paid
Carried(w) ==
    [playerHP |-> w.game.playerHP, playerMaxHP |-> w.game.playerMaxHP,
     damageMultiplier |-> w.game.damageMultiplier,
     fireRateMultiplier |-> w.game.fireRateMultiplier,
     speedMultiplier |-> w.game.speedMultiplier,
     torchMultiplier |-> w.game.torchMultiplier,
     lanternCount |-> w.game.lanternCount, flareCount |-> w.game.flareCount,
     teleporterCount |-> w.game.teleporterCount,
     shockwaveCount |-> w.game.shockwaveCount,
     ownedWeapons |-> w.combat.ownedWeapons, hasScythe |-> w.combat.hasScythe,
     killCount |-> w.combat.killCount, lastKillCount |-> w.game.lastKillCount,
     shop |-> w.game.shop]

\* what the completion of the level pays before the next one starts: the
\* map size in completeLevel; openShop has paid it when the shop opened
PaidAtStart == IF game.inShop THEN 0 ELSE getMapSize(game.currentLevel)

\* C35: the start of level N + 1 after level N leaves player HP and max HP,
\* the four upgrade multipliers, the consumable counts, the owned weapons
\* and the kill count as they are, and points and cumulative points as the
\* completion of level N left them: unchanged when the shop closes, with the
\* map size of level N added when completeLevel starts the level at once.
\* The new level has the torch and the damage of the upgrades.
C35_LevelStartKeeps ==
    [][NextLevelStarts =>
          /\ Carried(World') = Carried(World)
          /\ game'.points = game.points + PaidAtStart
          /\ game'.cumulativePoints = game.cumulativePoints + PaidAtStart
          /\ fog'.torchRadiusMultiplier = game.torchMultiplier
          /\ combat'.damageMultiplier = game.damageMultiplier]_vars

\* a level has just started for a hurt player who has points, owns the
\* scythe and has made a kill
C35_Witness ==
    /\ game.currentLevel >= 2 /\ game.levelTime = 0 /\ Playing(game)
    /\ game.playerHP < game.playerMaxHP
    /\ game.points > 0
    /\ combat.hasScythe /\ combat.killCount > 0

\* a level has just started after the shop, with upgrades of the damage,
\* the fire rate and the torch bought and a lantern placed before
C35_Upgraded ==
    /\ game.currentLevel >= 2 /\ game.levelTime = 0 /\ Playing(game)
    /\ game.fireRateMultiplier > MultScale
    /\ game.lanternCount # 2

(***************************************************************************)
(* The crawlers and the walls                                              *)
(***************************************************************************)
\* the collision box of the creature, its position +/- half its size, lies
\* on floor tiles of the maze
BoxOnFloor(creature) ==
    isWalkable(mz, creature.x, creature.y, (creature.size * PosScale) \div 2)

\* the crawlers alive
CrawlersOf(c) ==
    {c.creatures[k] : k \in {j \in 1 .. Len(c.creatures) :
                               c.creatures[j].alive /\ c.creatures[j].type = "crawler"}}

\* C36: at the end of every update of a level, the collision box of every
\* crawler alive lies on floor tiles of the maze, whether the spawner or a
\* brood mother has created it.
C36_CrawlersOnFloor ==
    (game.pc = 0 /\ hist.ticks > 0 /\ Playing(game)) =>
        \A crawler \in CrawlersOf(cm) : BoxOnFloor(crawler)

\* what holds of C36: the crawlers the spawner creates stand with their box
\* on floor tiles, and the turn of a crawler whose box is on floor tiles
\* leaves it on floor tiles; a crawler of a brood mother's ring is tested for
\* the tile under its middle only
C36_SpawnerAndMoves ==
    [][CreaturesStep =>
          /\ \A k \in 1 .. Len(hist'.spawned) :
                 hist'.spawned[k].type = "crawler" => BoxOnFloor(hist'.spawned[k])
          /\ \A after \in CrawlersOf(cm') :
                 \A before \in CrawlersOf(cm) :
                    (before.id = after.id /\ BoxOnFloor(before)) => BoxOnFloor(after)]_vars

(***************************************************************************)
(* The player and the walls                                                *)
(***************************************************************************)
\* the player's collision box, PLAYER_SIZE wide, on floor tiles of the maze
PlayerBoxOnFloor ==
    isWalkable(mz, player.x, player.y, (PLAYER_SIZE \div 2) * PosScale)

\* the channel of a teleport ends in this step and puts the player on a tile
TeleportCompletes ==
    /\ AtStep("updateTeleporting")
    /\ game.isTeleporting /\ ~game'.isTeleporting
    /\ player' # player

\* a step of a level under way that begins no other level
WithinLevel ==
    /\ Playing(game) /\ Playing(game')
    /\ game'.currentLevel = game.currentLevel
    /\ game'.levelTime >= game.levelTime

\* In a level under way the player's box lies on floor tiles inside the
\* maze, after each method of the update: at the start of the level, after
\* a movement along one axis or two, against a wall or not, and after a
\* teleport.
C37_BoxOnFloor == Playing(game) => PlayerBoxOnFloor

\* updatePlayer leaves the position of a player who is rooted, or whose
\* teleport is under way, as it is
C37_MovementHeld ==
    [][(AtStep("updatePlayer") /\ (game.isTeleporting \/ isPlayerRooted(cm)))
          => player' = player]_vars

\* C37: at the end of every update of a level the player's box lies on
\* floor tiles inside the maze, and within a level no step changes the
\* position of a player who is rooted before and after it, or whose teleport
\* is under way before and after it.
C37_PlayerStays ==
    [][/\ (game'.pc = 0 /\ Playing(game')) =>
              isWalkable(mz', player'.x, player'.y, (PLAYER_SIZE \div 2) * PosScale)
       /\ (/\ WithinLevel
           /\ \/ isPlayerRooted(cm) /\ isPlayerRooted(cm')
              \/ game.isTeleporting /\ game'.isTeleporting)
              => player' = player]_vars

(***************************************************************************)
(* The flares of the inventory and the flares of the world                 *)
(***************************************************************************)
\* the flares of the level's fog, in flight and landed
FlaresInWorld(f) == Len(f.flyingFlares) + Len(f.flares)

\* C38: within a level, every step that takes flares out of the inventory
\* puts as many flares into the world, and no other step changes the number
\* of flares in flight and landed: their number is the number of flares
\* used in the level.
C38_FlarePerFlare ==
    [][WithinLevel =>
          FlaresInWorld(fog') - FlaresInWorld(fog)
              = game.flareCount - game'.flareCount]_vars

\* Within a level only handleInput changes the two numbers, by one at most;
\* a flare in the world is never lost and never comes without one taken
\* from the inventory; a landing moves a flare from the flying to the landed
C38_FlaresKept ==
    [][WithinLevel =>
          /\ FlaresInWorld(fog') - FlaresInWorld(fog) \in {0, 1}
          /\ game.flareCount - game'.flareCount \in {0, 1}
          /\ FlaresInWorld(fog') - FlaresInWorld(fog)
                <= game.flareCount - game'.flareCount
          /\ ~AtStep("handleInput") =>
                /\ FlaresInWorld(fog') = FlaresInWorld(fog)
                /\ game'.flareCount = game.flareCount
          /\ AtStep("handleInput") =>
                (game'.flareCount < game.flareCount
                    <=> ("KeyF" \in hist'.pressed /\ game.flareCount > 0))]_vars

(***************************************************************************)
(* The player's health                                                     *)
(***************************************************************************)
\* C39: in a run, after every update and every purchase, the player's
\* health lies between 0 and the maximum, and it is 0 exactly when the game
\* is over.
C39_HealthInBounds ==
    ~game.onTitleScreen =>
        /\ 0 <= game.playerHP /\ game.playerHP <= game.playerMaxHP
        /\ game.playerHP = 0 <=> game.gameOver

\* The health stays between 0 and the maximum and a player without health
\* is dead; the step in which the game ends leaves no health; the health
\* rises only by a purchase in the shop, by 25 together with the maximum or
\* by at most 30 under the same maximum, and by the restart of a game that
\* is over
C39_HealthKept ==
    [][(~game.onTitleScreen /\ ~game'.onTitleScreen) =>
          /\ 0 <= game'.playerHP /\ game'.playerHP <= game'.playerMaxHP
          /\ game'.playerHP = 0 => game'.gameOver
          /\ (game'.gameOver /\ ~game.gameOver) => game'.playerHP = 0
          /\ game'.playerHP > game.playerHP =>
                \/ /\ game.inShop /\ game.pc = 0 /\ hist'.inputs > hist.inputs
                   /\ \/ /\ game'.playerMaxHP = game.playerMaxHP
                         /\ game'.playerHP <= game.playerHP + 30 * HpScale
                      \/ /\ game'.playerMaxHP = game.playerMaxHP + 25 * HpScale
                         /\ game'.playerHP = game.playerHP + 25 * HpScale
                \/ /\ game.gameOver /\ ~game'.gameOver
                   /\ game'.playerHP = PLAYER_MAX_HP * HpScale
                   /\ game'.playerMaxHP = PLAYER_MAX_HP * HpScale
          /\ game'.playerMaxHP # game.playerMaxHP =>
                \/ game.inShop /\ game'.playerMaxHP = game.playerMaxHP + 25 * HpScale
                \/ game.gameOver /\ ~game'.gameOver]_vars

(***************************************************************************)
(* The points to spend and the points earned                               *)
(***************************************************************************)
\* a step that begins another run or leaves the run: the start button, the
\* restart of a game that is over, the way to the title screen
RunBegins ==
    \/ game.onTitleScreen \/ game'.onTitleScreen
    \/ game.gameOver /\ ~game'.gameOver

\* the step pays for an upgrade the points suffice for, and earns nothing
PaysFor(id) ==
    /\ game.inShop /\ game.pc = 0
    /\ game.points >= ShopUpgrades[id].cost
    /\ game'.points = game.points - ShopUpgrades[id].cost
    /\ game'.cumulativePoints = game.cumulativePoints
    /\ game'.shop[id] = game.shop[id] + 1

\* the step takes an upgrade of the shop and leaves the points as they were
Refunds(id) ==
    /\ game.inShop /\ game.pc = 0
    /\ game.points >= ShopUpgrades[id].cost
    /\ game'.shop[id] = game.shop[id] + 1
    /\ game'.points = game.points
    /\ game'.cumulativePoints = game.cumulativePoints

\* C40: in a run the points to spend lie between 0 and the points earned;
\* the points earned never fall; every step adds to both the same amount,
\* or pays the cost of one upgrade out of points that suffice for it.
C40_PointsWithinEarned ==
    [][/\ 0 <= game.points /\ game.points <= game.cumulativePoints
       /\ 0 <= game'.points /\ game'.points <= game'.cumulativePoints
       /\ ~RunBegins =>
             /\ game'.cumulativePoints >= game.cumulativePoints
             /\ \/ game'.points - game.points
                      = game'.cumulativePoints - game.cumulativePoints
                \/ \E id \in UpgradeIds : PaysFor(id)]_vars

\* in the shop, after a purchase, kills and a level's end: points are left
\* and they are fewer than the points earned
C40_Witness ==
    /\ game.inShop /\ hist.inputs > 0
    /\ \E id \in UpgradeIds : game.shop[id] > 0
    /\ 0 < game.points /\ game.points < game.cumulativePoints

(***************************************************************************)
(* Specifications                                                          *)
(***************************************************************************)
\* the state of the components a specification leaves alone
MazeIdle ==
    mz = [width |-> 0, height |-> 0, tiles |-> {}, rooms |-> <<>>,
          pc |-> "idle", i |-> 0, startRoom |-> 0, exitRoom |-> 0]
FogIdle ==
    /\ fog = NewFogOfWar(0, 0, 10)
    /\ player = [x |-> 0, y |-> 0]
LevelIdle ==
    /\ game = NewGame
    /\ cm = NewCreatureManager
    /\ hist = NewHist
CombatIdle == combat = NewCombatSystem
LoopIdle == loop = NewGameLoop
GridIdle == grid = NewSpatialHashGrid(DefaultCellSize)

InitMaze == MazeInit /\ FogIdle /\ LevelIdle /\ CombatIdle /\ LoopIdle /\ GridIdle
SpecMaze == InitMaze /\ [][NextMaze]_vars

InitFog == FogInit /\ MazeIdle /\ LevelIdle /\ CombatIdle /\ LoopIdle /\ GridIdle
SpecFog == InitFog /\ [][NextFog]_vars
SpecFade == InitFog /\ [][NextFade]_vars
\* the game loop keeps calling update: FogOfWar.update is taken again and
\* again while the level lasts
SpecFogLive == InitFog /\ [][NextFlare]_vars /\ WF_vars(FogUpdate(FogHorizonTicks))

InitLevel == LevelInit /\ MazeIdle /\ FogIdle /\ CombatIdle /\ LoopIdle /\ GridIdle
SpecLevel == InitLevel /\ [][NextLevel]_vars

InitCombat == CombatInit /\ GridIdle
SpecCombat == InitCombat /\ [][NextCombat]_vars

InitLoop == LoopInit /\ MazeIdle /\ FogIdle /\ CombatIdle /\ game = NewGame /\ cm = NewCreatureManager /\ GridIdle
SpecLoop == InitLoop /\ [][NextLoop]_vars

InitGame == GameInit /\ GridIdle
SpecGame == InitGame /\ [][NextGame]_vars
InitBonus == BonusInit /\ GridIdle
SpecBonus == InitBonus /\ [][NextBonus]_vars

InitGoo == GooInit /\ MazeIdle /\ fog = NewFogOfWar(0, 0, 10) /\ CombatIdle /\ LoopIdle /\ game = NewGame /\ GridIdle
SpecGoo == InitGoo /\ [][NextGoo]_vars

InitSpit == SpitInit /\ GridIdle
SpecSpitter == InitSpit /\ [][NextSpit]_vars

InitGrid ==
    /\ GridInit /\ MazeIdle /\ FogIdle /\ CombatIdle /\ LoopIdle
    /\ game = NewGame /\ cm = NewCreatureManager
SpecGrid == InitGrid /\ [][NextGrid]_vars

====
